---- MODULE Spec2Model ----
(***************************************************************************)
(* Verification model of the item-migration verification tool:             *)
(*   src/src/priceComparison.js  price prerequisite gate and the three     *)
(*                               price comparison strategies               *)
(*   src/unnamed/part_002        loaders, resolvers, comparators,          *)
(*                               verifyDatabase, main, ReportGenerator     *)
(* The relational store is modelled by the SQL semantics of the queries    *)
(* the code sends (three-valued logic, LEFT JOIN, UNION, COALESCE).        *)
(***************************************************************************)
EXTENDS Integers, Sequences, FiniteSets, TLC

VARIABLES
  oldPriceTable,    \* rows of vendor_item_price_mapping (price snapshot)
  newPriceTable,    \* rows of im_sku_price_mapping
  bench,            \* what the two benchmarked strategies returned, or NotRun
  priceResult,      \* what comparePrices returned, or NotRun
  resolveIn,        \* a mapping file and the COLUMN_NAMEs of the two flat tables
  resolveOut,       \* what the loader and the two resolvers made of resolveIn
  compareIn,        \* the two flat tables and the input of one comparator
  compareOut,       \* what that comparator returned, or NotRun
  env,              \* process.env, the mapping files and the databases of the server
  mainPc,           \* where main() stands
  loaded,           \* attributeMappings and categoryMappings of main, or NotRun
  tenant,           \* position of the for-loop of main in tenantDbs
  run,              \* the verifyDatabase call in progress: its locals and its trace
  finished,         \* one summary per verifyDatabase call that ended
  mainLog,          \* what main itself logged
  groupIn,          \* the three mismatch lists handed to the grouping of a report
  groupOut          \* the groups made of them, or NotRun

priceVars == <<oldPriceTable, newPriceTable, bench, priceResult>>
resolveVars == <<resolveIn, resolveOut>>
compareVars == <<compareIn, compareOut>>
batchVars == <<env, mainPc, loaded, tenant, run, finished, mainLog>>

groupVars == <<groupIn, groupOut>>

vars == <<priceVars, resolveVars, compareVars, batchVars, groupVars>>

(***************************************************************************)
(* Scalars.  SQL NULL / JS null is the value NULL; every stored value is   *)
(* a string (the driver returns DECIMAL prices as strings).                *)
(***************************************************************************)
NULL == "null"

NotRun == [run |-> FALSE]

\* ---- bound of the price snapshots: rows in the two price tables together
MaxPriceRows == 3

\* the rows a price table may hold: every NULL / non-NULL combination of the
\* three price fields under the key (A1, pb1), and rows without a price book
\* (a NULL price_book_id never joins, so those rows only carry their prices)
PriceRows ==
  [sku_code : {"A1"}, price_book_id : {"pb1"},
   mrp : {NULL, "10", "12"}, rsp : {NULL, "10"}, spp : {NULL, "10"}]
  \cup
  [sku_code : {"A1"}, price_book_id : {NULL},
   mrp : {NULL, "10", "12"}, rsp : {"10"}, spp : {"10"}]

(***************************************************************************)
(* SQL three-valued logic.                                                 *)
(***************************************************************************)
T3 == "true"
F3 == "false"
U3 == "unknown"

\* a != b
SqlNeq(a, b) == IF a = NULL \/ b = NULL THEN U3 ELSE IF a # b THEN T3 ELSE F3

\* a = b
SqlEq(a, b) == IF a = NULL \/ b = NULL THEN U3 ELSE IF a = b THEN T3 ELSE F3

\* a IS NULL
SqlIsNull(a) == IF a = NULL THEN T3 ELSE F3

\* a IS NOT NULL
SqlIsNotNull(a) == IF a = NULL THEN F3 ELSE T3

SqlOr(x, y) ==
  IF x = T3 \/ y = T3 THEN T3 ELSE IF x = F3 /\ y = F3 THEN F3 ELSE U3

SqlAnd(x, y) ==
  IF x = F3 \/ y = F3 THEN F3 ELSE IF x = T3 /\ y = T3 THEN T3 ELSE U3

\* COALESCE(a, b)
Coalesce(a, b) == IF a # NULL THEN a ELSE b

\* the all-NULL row a LEFT JOIN supplies when the right side has no match
NullPriceRow ==
  [sku_code |-> NULL, price_book_id |-> NULL, mrp |-> NULL, rsp |-> NULL, spp |-> NULL]

\* limit = null: the falsy default of the three strategies' second parameter
NoLimit == 0

\* `${limitClause}`: LIMIT n without ORDER BY keeps any n rows; no clause
\* when limit is null (or 0).  The set of the row sets the store may return.
LimitClause(rows, limit) ==
  IF limit = NoLimit \/ Cardinality(rows) <= limit
  THEN {rows}
  ELSE {s \in SUBSET rows : Cardinality(s) = limit}

\* SELECT sku_code, price_book_id FROM old UNION SELECT ... FROM new
\* (UNION removes duplicates and treats NULLs as equal when doing so)
CombinedSkus(old, new) ==
  {<<r.sku_code, r.price_book_id>> : r \in old \cup new}

\* the rows of `table` that satisfy  sku_code = c.sku AND price_book_id = c.pb
KeyMatches(table, sku, pb) ==
  {r \in table : SqlAnd(SqlEq(sku, r.sku_code), SqlEq(pb, r.price_book_id)) = T3}

\* c LEFT JOIN table ON c.sku_code = t.sku_code AND c.price_book_id = t.price_book_id
LeftJoinPrice(table, c) ==
  IF KeyMatches(table, c[1], c[2]) = {} THEN {NullPriceRow}
  ELSE KeyMatches(table, c[1], c[2])

(***************************************************************************)
(* The outer-join query of comparePrices and comparePricesOptimized.       *)
(***************************************************************************)
\* WHERE o.sku_code IS NULL OR n.sku_code IS NULL
\*    OR o.mrp != n.mrp OR o.rsp != n.rsp OR o.spp != n.spp
PriceWhere(o, n) ==
  SqlOr(SqlIsNull(o.sku_code),
    SqlOr(SqlIsNull(n.sku_code),
      SqlOr(SqlNeq(o.mrp, n.mrp),
        SqlOr(SqlNeq(o.rsp, n.rsp), SqlNeq(o.spp, n.spp)))))

\* CASE WHEN o.sku_code IS NULL THEN 'missing_in_old'
\*      WHEN n.sku_code IS NULL THEN 'missing_in_new' ELSE 'exists_in_both' END
PriceStatus(o, n) ==
  IF SqlIsNull(o.sku_code) = T3 THEN "missing_in_old"
  ELSE IF SqlIsNull(n.sku_code) = T3 THEN "missing_in_new"
  ELSE "exists_in_both"

\* the SELECT list
PriceSelect(o, n) ==
  [sku_code |-> Coalesce(o.sku_code, n.sku_code),
   price_book_id |-> Coalesce(o.price_book_id, n.price_book_id),
   old_mrp |-> o.mrp, new_mrp |-> n.mrp,
   old_rsp |-> o.rsp, new_rsp |-> n.rsp,
   old_spp |-> o.spp, new_spp |-> n.spp,
   status |-> PriceStatus(o, n)]

\* FROM combined_skus c LEFT JOIN old o ... LEFT JOIN new n ... WHERE ...
PriceJoinQuery(old, new) ==
  UNION { UNION { { PriceSelect(o, n) : n \in {m \in LeftJoinPrice(new, c) : PriceWhere(o, m) = T3} }
                  : o \in LeftJoinPrice(old, c) }
          : c \in CombinedSkus(old, new) }

\* JS strict inequality of two fetched values (null !== null is false)
StrictNeq(a, b) == a # b

\* the three { field, old, new } triples of one joined row, in code order
RowFields(row) ==
  << [field |-> "mrp", old_value |-> row.old_mrp, new_value |-> row.new_mrp],
     [field |-> "rsp", old_value |-> row.old_rsp, new_value |-> row.new_rsp],
     [field |-> "spp", old_value |-> row.old_spp, new_value |-> row.new_spp] >>

\* a mutation of DiffersIn: every field is pushed as a difference
DiffersIn_Always(d) == TRUE

\* if (old !== newValue)
DiffersIn(d) == StrictNeq(d.old_value, d.new_value)

\* differences of one 'exists_in_both' row
RowDifferences(row) == SelectSeq(RowFields(row), DiffersIn)

\* the for-loop over comparisonResults: the returned { mismatches, missing }
ClassifyJoinRows(rows) ==
  [mismatches |->
     {[sku_code |-> r.sku_code, price_book_id |-> r.price_book_id,
       differences |-> RowDifferences(r)]
        : r \in {x \in rows : x.status = "exists_in_both" /\ RowDifferences(x) # <<>>}},
   missing |->
     [missingInNew |->
        {[sku_code |-> r.sku_code, price_book_id |-> r.price_book_id,
          prices |-> [mrp |-> r.old_mrp, rsp |-> r.old_rsp, spp |-> r.old_spp]]
           : r \in {x \in rows : x.status = "missing_in_new"}},
      missingInOld |->
        {[sku_code |-> r.sku_code, price_book_id |-> r.price_book_id,
          prices |-> [mrp |-> r.new_mrp, rsp |-> r.new_rsp, spp |-> r.new_spp]]
           : r \in {x \in rows : x.status = "missing_in_old"}}]]

\* comparePrices(connection, limit): every result the call may return
comparePrices(old, new, limit) ==
  {ClassifyJoinRows(rows) : rows \in LimitClause(PriceJoinQuery(old, new), limit)}

\* comparePricesOptimized(connection, limit)
comparePricesOptimized(old, new, limit) ==
  {ClassifyJoinRows(rows) : rows \in LimitClause(PriceJoinQuery(old, new), limit)}

(***************************************************************************)
(* comparePricesOriginal: one UNION query, then two lookups per pair.      *)
(***************************************************************************)
\* oldPrices[0] / newPrices[0]: the lookups have no ORDER BY, so any
\* matching row may come first; NullPriceRow stands for an empty result
FirstRows(table, pairs) ==
  {f \in [pairs -> table \cup {NullPriceRow}] :
     \A p \in pairs :
       IF KeyMatches(table, p[1], p[2]) = {} THEN f[p] = NullPriceRow
       ELSE f[p] \in KeyMatches(table, p[1], p[2])}

PairFields(o, n) ==
  << [field |-> "mrp", old_value |-> o.mrp, new_value |-> n.mrp],
     [field |-> "rsp", old_value |-> o.rsp, new_value |-> n.rsp],
     [field |-> "spp", old_value |-> o.spp, new_value |-> n.spp] >>

PairDifferences(o, n) == SelectSeq(PairFields(o, n), DiffersIn)

\* the for-loop over skuPriceBooks, given the first row of every lookup
ClassifyPairs(old, new, pairs, fo, fn) ==
  [mismatches |->
     {[sku_code |-> p[1], price_book_id |-> p[2],
       differences |-> PairDifferences(fo[p], fn[p])]
        : p \in {q \in pairs : /\ KeyMatches(old, q[1], q[2]) # {}
                                /\ KeyMatches(new, q[1], q[2]) # {}
                                /\ PairDifferences(fo[q], fn[q]) # <<>>}},
   missing |->
     [missingInNew |->
        {[sku_code |-> p[1], price_book_id |-> p[2], prices |-> fo[p]]
           : p \in {q \in pairs : /\ KeyMatches(new, q[1], q[2]) = {}
                                   /\ KeyMatches(old, q[1], q[2]) # {}}},
      missingInOld |->
        {[sku_code |-> p[1], price_book_id |-> p[2], prices |-> fn[p]]
           : p \in {q \in pairs : /\ KeyMatches(old, q[1], q[2]) = {}
                                   /\ KeyMatches(new, q[1], q[2]) # {}}}]]

\* comparePricesOriginal(connection, limit): every result the call may return
comparePricesOriginal(old, new, limit) ==
  UNION { { ClassifyPairs(old, new, pairs, fo, fn)
              : fo \in FirstRows(old, pairs), fn \in FirstRows(new, pairs) }
          : pairs \in LimitClause(CombinedSkus(old, new), limit) }

\* const sampleSize = 1000 (runBenchmark)
sampleSize == 1000

(***************************************************************************)
(* Column names.  A mapping file and INFORMATION_SCHEMA may spell a column *)
(* in any case; toLowerCase is modelled on the names the model uses.       *)
(***************************************************************************)
\* String.prototype.toLowerCase
toLowerCase(name) ==
  CASE name = "ATTR_1" -> "attr_1"
    [] name = "Color" -> "color"
    [] name = "Name" -> "name"
    [] name = "SKU" -> "sku"
    [] OTHER -> name

\* the value of a destructured array element that does not exist
UNDEFINED == "<undefined>"

\* Array.prototype.includes
Includes(list, x) == \E i \in 1..Len(list) : list[i] = x

\* const IGNORED_COLUMNS
IGNORED_COLUMNS ==
  [oldTable |-> <<"brand_name", "department_name", "id", "vendor_sku_detail_id", "sku">>]

(***************************************************************************)
(* loadAttributeMappings / loadCategoryMappings.  A line of the file is    *)
(* the sequence of its trimmed '->'-separated segments: "a -> b" is        *)
(* <<"a", "b">>, "a" is <<"a">>, "a ->" is <<"a", "">>, a blank line <<"">>.*)
(***************************************************************************)
\* if (line.trim()): a line holding only white space is skipped
LineIsBlank(line) == line = <<"">>

\* const [newCol, oldCol] = line.split('->').map(s => s.trim())
LineNewCol(line) == line[1]
LineOldCol(line) == IF Len(line) >= 2 THEN line[2] ELSE UNDEFINED

\* Map.prototype.set: an existing key keeps its place and takes the new value
MapSet(map, key, value) ==
  IF \E i \in 1..Len(map) : map[i][1] = key
  THEN [i \in 1..Len(map) |-> IF map[i][1] = key THEN <<key, value>> ELSE map[i]]
  ELSE Append(map, <<key, value>>)

RECURSIVE LoadLines(_, _)
LoadLines(lines, map) ==
  IF lines = <<>> THEN map
  ELSE LoadLines(Tail(lines),
         IF LineIsBlank(Head(lines)) THEN map
         ELSE MapSet(map, LineNewCol(Head(lines)), LineOldCol(Head(lines))))

\* the Map of newCol -> oldCol, as the sequence of its entries in insertion order
loadAttributeMappings(lines) == LoadLines(lines, <<>>)

loadCategoryMappings(lines) == LoadLines(lines, <<>>)

(***************************************************************************)
(* Schema introspection and mapping resolution.                            *)
(***************************************************************************)
\* columns.map(col => col.COLUMN_NAME.toLowerCase()); only membership
\* (includes) and the length are read, so the list is kept as a set
LowerCasedNames(columnNames) == {toLowerCase(c) : c \in columnNames}

EmptyMissing == [oldTable |-> <<>>, newTable |-> <<>>]

\* a mutation of IsIgnoredColumn: nothing is ignored
IsIgnoredColumn_Never(column) == FALSE

\* IGNORED_COLUMNS.oldTable.includes(column)
IsIgnoredColumn(column) == Includes(IGNORED_COLUMNS.oldTable, column)

\* a mutation of IsColPresent: the name is looked up as the file spells it
IsColPresent_CaseSensitive(tableColumns, column) == column \in tableColumns

\* tableColumns.includes(column.toLowerCase())
IsColPresent(tableColumns, column) == toLowerCase(column) \in tableColumns

\* a mutation of BothPresent: the mapping is kept when either side resolves
BothPresent_EitherSide(isOldColPresent, isNewColPresent) ==
  isOldColPresent \/ isNewColPresent

\* if (isOldColPresent && isNewColPresent)
BothPresent(isOldColPresent, isNewColPresent) ==
  isOldColPresent /\ isNewColPresent

RECURSIVE ResolveLoop(_, _, _, _)
\* the for-loop of verifyAttributeColumns over the entries of the Map
ResolveLoop(oldTableColumns, newTableColumns, mappings, acc) ==
  IF mappings = <<>> THEN acc
  ELSE
    LET newCol == Head(mappings)[1]
        oldCol == Head(mappings)[2]
    IN
    IF IsIgnoredColumn(oldCol)
    THEN ResolveLoop(oldTableColumns, newTableColumns, Tail(mappings), acc)
    ELSE IF oldCol = UNDEFINED
    THEN [acc EXCEPT !.threw = TRUE]    \* oldCol.toLowerCase() raises TypeError
    ELSE
      LET isOldColPresent == IsColPresent(oldTableColumns, oldCol)
          isNewColPresent == IsColPresent(newTableColumns, newCol)
      IN
      ResolveLoop(oldTableColumns, newTableColumns, Tail(mappings),
        IF BothPresent(isOldColPresent, isNewColPresent)
        THEN [acc EXCEPT !.validMappings = MapSet(@, newCol, oldCol)]
        ELSE [acc EXCEPT
                !.missingColumns.oldTable =
                   IF isOldColPresent THEN @
                   ELSE Append(@, [mapping |-> <<newCol, oldCol>>, missingColumn |-> oldCol]),
                !.missingColumns.newTable =
                   IF isNewColPresent THEN @
                   ELSE Append(@, [mapping |-> <<newCol, oldCol>>, missingColumn |-> newCol])])

\* verifyAttributeColumns, given the two column lists getTableColumns returned:
\* { validMappings, missingColumns }, or threw (logged and rethrown)
verifyAttributeColumns(oldTableColumns, newTableColumns, attributeMappings) ==
  LET out == ResolveLoop(oldTableColumns, newTableColumns, attributeMappings,
               [threw |-> FALSE, validMappings |-> <<>>, missingColumns |-> EmptyMissing])
  IN IF out.threw THEN [threw |-> TRUE] ELSE out

\* const desiredCommonColumns
desiredCommonColumns ==
  << "name", "short_description", "long_description", "purchase_uom_name",
     "selling_uom_name", "uom_factor", "tax_type", "is_active", "ref_item_code",
     "sku_code", "ref_sku_code", "sku", "purchase_uom_id", "purchase_uom_type",
     "selling_uom_id", "selling_uom_name", "selling_uom_type" >>

RECURSIVE CommonLoop(_, _, _, _)
\* desiredCommonColumns.forEach(column => ...)
CommonLoop(oldTableColumns, newTableColumns, columns, acc) ==
  IF columns = <<>> THEN acc
  ELSE
    LET column == Head(columns) IN
    IF IsIgnoredColumn(column)
    THEN CommonLoop(oldTableColumns, newTableColumns, Tail(columns), acc)
    ELSE
      LET isOldColPresent == IsColPresent(oldTableColumns, column)
          isNewColPresent == IsColPresent(newTableColumns, column)
      IN
      CommonLoop(oldTableColumns, newTableColumns, Tail(columns),
        IF BothPresent(isOldColPresent, isNewColPresent)
        THEN [acc EXCEPT !.availableColumns = Append(@, column)]
        ELSE [acc EXCEPT
                !.missingColumns.oldTable = IF isOldColPresent THEN @ ELSE Append(@, column),
                !.missingColumns.newTable = IF isNewColPresent THEN @ ELSE Append(@, column)])

\* verifyCommonColumns, given the two column lists: { availableColumns, missingColumns }
verifyCommonColumns(oldTableColumns, newTableColumns) ==
  CommonLoop(oldTableColumns, newTableColumns, desiredCommonColumns,
    [threw |-> FALSE, availableColumns |-> <<>>, missingColumns |-> EmptyMissing])

(***************************************************************************)
(* The flat tables and the comparison query of the three comparators.      *)
(* A table is [columnNames, rows]: the COLUMN_NAMEs as the catalog spells  *)
(* them and the rows in storage order, each row a record over the          *)
(* lower-cased column names.                                               *)
(***************************************************************************)
\* the right side of a LEFT JOIN row that found no match: every column NULL
NoMatch == [matched |-> FALSE]

\* o.<column> / n.<column>: identifiers are matched case-insensitively
FieldOf(row, column) == IF row = NoMatch THEN NULL ELSE row[toLowerCase(column)]

\* the store rejects a query that names a column the table does not have,
\* and an empty identifier
HasColumn(table, column) ==
  column # "" /\ toLowerCase(column) \in LowerCasedNames(table.columnNames)

RECURSIVE LeftJoinSku(_, _)
\* FROM vendor_sku_flat_table o LEFT JOIN im_sku_flat_table n
\*   ON o.sku_code = n.sku_code : the joined <<o, n>> pairs, in scan order
LeftJoinSku(oldRows, newRows) ==
  IF oldRows = <<>> THEN <<>>
  ELSE
    LET o == Head(oldRows)
        matches == SelectSeq(newRows, LAMBDA n : SqlEq(o.sku_code, n.sku_code) = T3)
    IN (IF matches = <<>> THEN << <<o, NoMatch>> >>
        ELSE [k \in 1..Len(matches) |-> <<o, matches[k]>>])
       \o LeftJoinSku(Tail(oldRows), newRows)

\* a mutation of SkuKeyGuard: the two key conditions are left out
SkuKeyGuard_Open(o, n) == T3

\* AND o.sku_code IS NOT NULL AND n.sku_code IS NOT NULL
SkuKeyGuard(o, n) ==
  SqlAnd(SqlIsNotNull(FieldOf(o, "sku_code")), SqlIsNotNull(FieldOf(n, "sku_code")))

\* a mutation of CompareWhere: the two IS NULL arms are left out
CompareWhere_NoNullArms(o, n, oldCol, newCol) ==
  SqlAnd(SqlNeq(FieldOf(o, oldCol), FieldOf(n, newCol)), SkuKeyGuard(o, n))

\* WHERE (o.old != n.new OR (o.old IS NULL AND n.new IS NOT NULL)
\*        OR (o.old IS NOT NULL AND n.new IS NULL))
\*   AND o.sku_code IS NOT NULL AND n.sku_code IS NOT NULL
CompareWhere(o, n, oldCol, newCol) ==
  SqlAnd(
    SqlOr(SqlNeq(FieldOf(o, oldCol), FieldOf(n, newCol)),
      SqlOr(SqlAnd(SqlIsNull(FieldOf(o, oldCol)), SqlIsNotNull(FieldOf(n, newCol))),
            SqlAnd(SqlIsNotNull(FieldOf(o, oldCol)), SqlIsNull(FieldOf(n, newCol))))),
    SkuKeyGuard(o, n))

\* the rows the comparison query returns for one column pair
CompareQuery(oldTable, newTable, oldCol, newCol) ==
  LET joined == LeftJoinSku(oldTable.rows, newTable.rows)
      kept == SelectSeq(joined, LAMBDA p : CompareWhere(p[1], p[2], oldCol, newCol) = T3)
  IN [k \in 1..Len(kept) |->
        [sku_code |-> FieldOf(kept[k][1], "sku_code"),
         old_value |-> FieldOf(kept[k][1], oldCol),
         new_value |-> FieldOf(kept[k][2], newCol)]]

\* connection.query rejects: a column the tables lack, or a transient error
\* of the store on the i-th query of the loop
QueryFails(oldTable, newTable, oldCol, newCol, i, failing) ==
  \/ i \in failing
  \/ ~HasColumn(oldTable, oldCol)
  \/ ~HasColumn(newTable, newCol)
  \/ ~HasColumn(oldTable, "sku_code")
  \/ ~HasColumn(newTable, "sku_code")

\* if (!newCol || !oldCol): undefined and the empty string are falsy
IsFalsy(name) == name = UNDEFINED \/ name = ""

\* mismatches.push({...}) of the three comparators
MismatchRecord(kind, oldCol, newCol, results) ==
  CASE kind = "attribute" ->
         [old_column |-> oldCol, new_column |-> newCol, differences |-> results]
    [] kind = "category" ->
         [old_column |-> oldCol, new_column |-> newCol, differences |-> results,
          type |-> "category"]
    [] kind = "common" ->
         [column |-> oldCol, differences |-> results]

\* a mutation of AfterQueryError: the failure ends the loop
AfterQueryError_Abort(rest) == <<>>

\* catch (error) { logger.warning(...) } inside the for-loop: the loop goes
\* on with the remaining mappings
AfterQueryError(rest) == rest

RECURSIVE CompareLoop(_, _, _, _, _, _, _)
\* the for-loop of a comparator over its mappings (pairs <<newCol, oldCol>>;
\* a common column is the pair <<column, column>>); i is the position of
\* Head(items) in the input
CompareLoop(kind, oldTable, newTable, items, i, failing, acc) ==
  IF items = <<>> THEN acc
  ELSE
    LET newCol == Head(items)[1]
        oldCol == Head(items)[2]
    IN
    IF IsFalsy(newCol) \/ IsFalsy(oldCol)
    THEN CompareLoop(kind, oldTable, newTable, Tail(items), i + 1, failing,
           [acc EXCEPT !.log = Append(@, [level |-> "warning", event |-> "skipped",
                                          item |-> Head(items)])])
    ELSE IF QueryFails(oldTable, newTable, oldCol, newCol, i, failing)
    THEN CompareLoop(kind, oldTable, newTable, AfterQueryError(Tail(items)), i + 1, failing,
           [acc EXCEPT !.log = Append(@, [level |-> "warning", event |-> "query_failed",
                                          item |-> Head(items)])])
    ELSE
      LET results == CompareQuery(oldTable, newTable, oldCol, newCol) IN
      CompareLoop(kind, oldTable, newTable, Tail(items), i + 1, failing,
        IF Len(results) > 0
        THEN [acc EXCEPT !.mismatches = Append(@, MismatchRecord(kind, oldCol, newCol, results))]
        ELSE acc)

NothingCompared == [threw |-> FALSE, mismatches |-> <<>>, log |-> <<>>]

\* compareAttributeValues(connection, attributeMappings)
compareAttributeValues(oldTable, newTable, attributeMappings, failing) ==
  CompareLoop("attribute", oldTable, newTable, attributeMappings, 1, failing, NothingCompared)

\* compareCategoryValues(connection, categoryMappings)
compareCategoryValues(oldTable, newTable, categoryMappings, failing) ==
  CompareLoop("category", oldTable, newTable, categoryMappings, 1, failing, NothingCompared)

\* compareCommonColumns(connection, availableColumns)
compareCommonColumns(oldTable, newTable, availableColumns, failing) ==
  CompareLoop("common", oldTable, newTable,
    [k \in 1..Len(availableColumns) |-> <<availableColumns[k], availableColumns[k]>>],
    1, failing, NothingCompared)

(***************************************************************************)
(* The server, the catalog and the steps of verifyDatabase that are not    *)
(* resolvers or comparators.  A database is a record of its four tables,   *)
(* named as the queries name them; the server is a function from database  *)
(* names to databases.                                                     *)
(***************************************************************************)
\* SELECT COLUMN_NAME ... FROM INFORMATION_SCHEMA.COLUMNS WHERE TABLE_NAME = ?
\* : the filter names the table only, so the catalog answers with the
\* columns of that table in every database of the server
CatalogColumns(server, tableName) ==
  UNION {server[d][tableName].columnNames : d \in DOMAIN server}

\* getTableColumns(connection, tableName)
getTableColumns(server, tableName) ==
  LowerCasedNames(CatalogColumns(server, tableName))

\* one side of verifySkuCodeMatches: SELECT l.sku_code, l.name FROM left l
\* LEFT JOIN right r ON l.sku_code = r.sku_code WHERE r.sku_code IS NULL
MissingOnOtherSide(left, right) ==
  LET joined == LeftJoinSku(left.rows, right.rows)
      kept == SelectSeq(joined, LAMBDA p : SqlIsNull(FieldOf(p[2], "sku_code")) = T3)
  IN [k \in 1..Len(kept) |->
        [sku_code |-> FieldOf(kept[k][1], "sku_code"),
         name |-> FieldOf(kept[k][1], "name")]]

\* the store rejects a query of verifySkuCodeMatches that names a column a
\* table lacks: the query selects l.sku_code, l.name and joins on r.sku_code
SkuQueryFails(left, right) ==
  \/ ~HasColumn(left, "sku_code")
  \/ ~HasColumn(left, "name")
  \/ ~HasColumn(right, "sku_code")

\* verifySkuCodeMatches(connection): { missingInNew, missingInOld }
verifySkuCodeMatches(oldTable, newTable) ==
  [missingInNew |-> MissingOnOtherSide(oldTable, newTable),
   missingInOld |-> MissingOnOtherSide(newTable, oldTable)]

\* const requiredColumns of verifyPriceColumns
requiredColumns ==
  [old |-> <<"sku_code", "price_book_id", "mrp", "rsp", "spp">>,
   new |-> <<"sku_code", "price_book_id", "mrp", "rsp", "spp">>]

\* verifyPriceColumns, given the lower-cased column names the catalog returned
verifyPriceColumns(oldColumnNames, newColumnNames) ==
  [oldTable |-> SelectSeq(requiredColumns.old,
                  LAMBDA col : toLowerCase(col) \notin oldColumnNames),
   newTable |-> SelectSeq(requiredColumns.new,
                  LAMBDA col : toLowerCase(col) \notin newColumnNames)]

\* the store rejects the price comparison query when a price table lacks
\* one of the columns the query names
PriceQueryFails(oldTable, newTable) ==
  \/ \E k \in 1..Len(requiredColumns.old) : ~HasColumn(oldTable, requiredColumns.old[k])
  \/ \E k \in 1..Len(requiredColumns.new) : ~HasColumn(newTable, requiredColumns.new[k])

\* if (missingPriceColumns.oldTable.length === 0 && missingPriceColumns.newTable.length === 0)
PriceGateOpen(missingPriceColumns) ==
  Len(missingPriceColumns.oldTable) = 0 /\ Len(missingPriceColumns.newTable) = 0

\* a field of `results` that no step has assigned: null
Unset == [set |-> FALSE]

SetTo(value) == [set |-> TRUE, value |-> value]

\* const results = { missingAttributeColumns: null, ... }
EmptyResults ==
  [missingAttributeColumns |-> Unset, missingCategoryColumns |-> Unset,
   missingCommonColumns |-> Unset, missingPriceColumns |-> Unset,
   skuMismatches |-> Unset, attributeMismatches |-> Unset,
   categoryMismatches |-> Unset, commonColumnMismatches |-> Unset,
   priceMismatches |-> Unset]

\* the events a connection sees: one per connection.query and connection.end
\* call, with the flat-table columns a query names (o.<column> / n.<column>)
QueryEvent(step, kind, oldColumns, newColumns) ==
  [op |-> "query", step |-> step, kind |-> kind,
   oldColumns |-> oldColumns, newColumns |-> newColumns]

CatalogQuery(step) == QueryEvent(step, "catalog", {}, {})

EndEvent == [op |-> "end", step |-> 11, kind |-> "end", oldColumns |-> {}, newColumns |-> {}]

\* the comparison queries a comparator sends for its items, one per item
\* whose two names are truthy: SELECT o.sku_code, o.<oldCol>, n.<newCol>
\* ... ON o.sku_code = n.sku_code
IssuedQueries(step, items) ==
  LET named == SelectSeq(items, LAMBDA it : ~(IsFalsy(it[1]) \/ IsFalsy(it[2])))
  IN [k \in 1..Len(named) |->
        QueryEvent(step, "compare", {"sku_code", named[k][2]}, {"sku_code", named[k][1]})]

\* one entry per query of a comparator run that the store rejected, each
\* of which enters the catch block inside the loop of the comparator
FailedQueries(oldTable, newTable, items, failing) ==
  LET failed == {i \in 1..Len(items) :
                   /\ ~(IsFalsy(items[i][1]) \/ IsFalsy(items[i][2]))
                   /\ QueryFails(oldTable, newTable, items[i][2], items[i][1], i, failing)}
  IN [k \in 1..Cardinality(failed) |-> "comparator"]

\* a common column is compared with itself
CommonItems(availableColumns) ==
  [k \in 1..Len(availableColumns) |-> <<availableColumns[k], availableColumns[k]>>]

\* a mutation of AttributeComparatorInput: every loaded mapping is compared
AttributeComparatorInput_AllMappings(validMappings, attributeMappings) ==
  attributeMappings

\* compareAttributeValues(connection, validMappings)
AttributeComparatorInput(validMappings, attributeMappings) == validMappings

\* a mutation of CatchRethrows: the catch block passes the error on
CatchRethrows_Always == TRUE

\* catch (error) { logger.error(...) }: the block has no throw
CatchRethrows == FALSE

\* a mutation of AfterCatch: the error path returns without the finally block
AfterCatch_SkipsFinally == "return"

\* try { ... } catch { ... } finally { ... }: the finally block follows the catch
AfterCatch == "finally"

\* the variables a specification does not use stay at these values
IdlePrice ==
  /\ oldPriceTable = {} /\ newPriceTable = {}
  /\ bench = NotRun /\ priceResult = NotRun

IdleResolve ==
  /\ resolveIn = [lines |-> <<>>, oldColumnNames |-> {}, newColumnNames |-> {}]
  /\ resolveOut = [mappings |-> NotRun, attribute |-> NotRun, common |-> NotRun]

IdleCompare ==
  /\ compareIn = [kind |-> "none"]
  /\ compareOut = NotRun

IdleGroup ==
  /\ groupIn = [attributeMismatches |-> <<>>, categoryMismatches |-> <<>>,
                commonColumnMismatches |-> <<>>]
  /\ groupOut = NotRun

NoRun == [pc |-> "none"]

IdleBatch ==
  /\ env = [credentials |-> FALSE]
  /\ mainPc = "idle"
  /\ loaded = NotRun
  /\ tenant = 0
  /\ run = NoRun
  /\ finished = <<>>
  /\ mainLog = <<>>

(***************************************************************************)
(* Specification of the price strategies over every bounded snapshot.      *)
(***************************************************************************)
RECURSIVE SetsUpTo(_, _)
\* the subsets of `universe` with at most `max` elements
SetsUpTo(universe, max) ==
  IF max = 0 THEN {{}}
  ELSE SetsUpTo(universe, max - 1)
         \cup {t \cup {r} : t \in SetsUpTo(universe, max - 1), r \in universe}

\* every pair of price tables holding at most `max` rows together
PriceSnapshots(max) ==
  {[old |-> {x[2] : x \in {y \in s : y[1] = "old"}},
    new |-> {x[2] : x \in {y \in s : y[1] = "new"}}]
     : s \in SetsUpTo({"old", "new"} \X PriceRows, max)}

InitPrice ==
  /\ \E snap \in PriceSnapshots(MaxPriceRows) :
       /\ oldPriceTable = snap.old
       /\ newPriceTable = snap.new
  /\ bench = NotRun
  /\ priceResult = NotRun
  /\ IdleResolve
  /\ IdleCompare
  /\ IdleBatch
  /\ IdleGroup

\* both strategies run against the same snapshot with the same row cap
\* (runBenchmark passes sampleSize; a direct call passes no cap)
RunBenchmark ==
  /\ bench = NotRun
  /\ \E limit \in {NoLimit, sampleSize} :
       \E orig \in comparePricesOriginal(oldPriceTable, newPriceTable, limit) :
         \E opt \in comparePricesOptimized(oldPriceTable, newPriceTable, limit) :
           bench' = [run |-> TRUE, limit |-> limit, original |-> orig, optimized |-> opt]
  /\ UNCHANGED <<oldPriceTable, newPriceTable, priceResult, resolveVars, compareVars, batchVars, groupVars>>

\* comparePrices(connection) as verifyDatabase calls it: no row cap
RunComparePrices ==
  /\ priceResult = NotRun
  /\ \E res \in comparePrices(oldPriceTable, newPriceTable, NoLimit) :
       priceResult' = [run |-> TRUE, result |-> res]
  /\ UNCHANGED <<oldPriceTable, newPriceTable, bench, resolveVars, compareVars, batchVars, groupVars>>

NextPrice == RunBenchmark \/ RunComparePrices

SpecPrice == InitPrice /\ [][NextPrice]_vars

(***************************************************************************)
(* Specification of the loader and the resolvers over every bounded        *)
(* mapping file and every pair of flat-table schemas.                      *)
(***************************************************************************)
\* lines in a mapping file
MaxLines == 2

\* the lines a mapping file may hold: well-formed mappings in either case,
\* a mapping nothing resolves, mappings onto ignored old columns, a line
\* without '->', lines with an empty side, a blank line
MappingLines ==
  { <<"color", "attr_1">>, <<"Color", "ATTR_1">>, <<"size", "attr_2">>,
    <<"brand", "brand_name">>, <<"color", "sku">>,
    <<"color">>, <<"size", "">>, <<"", "attr_1">>, <<"">> }

\* COLUMN_NAME values INFORMATION_SCHEMA may report for the two flat tables
OldColumnNames == {"ATTR_1", "brand_name", "name", "sku"}
NewColumnNames == {"Color", "name", "SKU"}

RECURSIVE SeqsUpTo(_, _)
\* the sequences over `universe` of length at most `max`
SeqsUpTo(universe, max) ==
  IF max = 0 THEN {<<>>}
  ELSE SeqsUpTo(universe, max - 1)
         \cup {Append(q, x) : q \in {r \in SeqsUpTo(universe, max - 1) : Len(r) = max - 1},
                              x \in universe}

InitResolve ==
  /\ resolveIn \in [lines : SeqsUpTo(MappingLines, MaxLines),
                    oldColumnNames : SUBSET OldColumnNames,
                    newColumnNames : SUBSET NewColumnNames]
  /\ resolveOut = [mappings |-> NotRun, attribute |-> NotRun, common |-> NotRun]
  /\ IdlePrice
  /\ IdleCompare
  /\ IdleBatch
  /\ IdleGroup

\* main: const attributeMappings = await loadAttributeMappings()
LoadMappings ==
  /\ ~resolveOut.mappings.run
  /\ resolveOut' = [resolveOut EXCEPT
       !.mappings = [run |-> TRUE, map |-> loadAttributeMappings(resolveIn.lines)]]
  /\ UNCHANGED <<resolveIn, priceVars, compareVars, batchVars, groupVars>>

\* verifyDatabase step 2: verifyAttributeColumns(connection, attributeMappings)
ResolveAttributeMappings ==
  /\ resolveOut.mappings.run
  /\ ~resolveOut.attribute.run
  /\ resolveOut' = [resolveOut EXCEPT
       !.attribute = [run |-> TRUE,
                      out |-> verifyAttributeColumns(
                                LowerCasedNames(resolveIn.oldColumnNames),
                                LowerCasedNames(resolveIn.newColumnNames),
                                resolveOut.mappings.map)]]
  /\ UNCHANGED <<resolveIn, priceVars, compareVars, batchVars, groupVars>>

\* verifyDatabase step 4: verifyCommonColumns(connection)
ResolveCommonColumns ==
  /\ ~resolveOut.common.run
  /\ resolveOut' = [resolveOut EXCEPT
       !.common = [run |-> TRUE,
                   out |-> verifyCommonColumns(
                             LowerCasedNames(resolveIn.oldColumnNames),
                             LowerCasedNames(resolveIn.newColumnNames))]]
  /\ UNCHANGED <<resolveIn, priceVars, compareVars, batchVars, groupVars>>

NextResolve == LoadMappings \/ ResolveAttributeMappings \/ ResolveCommonColumns

SpecResolve == InitResolve /\ [][NextResolve]_vars

(***************************************************************************)
(* Specification of the three comparators over every bounded pair of flat  *)
(* tables and every bounded list of mappings or columns.                   *)
(***************************************************************************)
\* rows in the two flat tables together
MaxFlatRows == 2

\* mappings (or common columns) handed to a comparator
MaxMappings == 2

\* rows of vendor_sku_flat_table: every NULL / non-NULL combination under
\* SKU S1, a second SKU, and a row without SKU code
OldFlatRows ==
  [sku_code : {"S1"}, name : {NULL, "n"}, attr_1 : {NULL, "x", "y"}]
  \cup {[sku_code |-> "S2", name |-> "n", attr_1 |-> "x"],
        [sku_code |-> NULL, name |-> "n", attr_1 |-> "x"]}

\* rows of im_sku_flat_table
NewFlatRows ==
  [sku_code : {"S1"}, name : {NULL, "n"}, color : {NULL, "x", "y"}]
  \cup {[sku_code |-> "S2", name |-> "m", color |-> "y"],
        [sku_code |-> NULL, name |-> "n", color |-> "x"]}

OldFlatColumnNames == {"sku_code", "name", "ATTR_1"}
NewFlatColumnNames == {"sku_code", "name", "Color"}

\* mappings a comparator may be handed: two that both tables satisfy and one
\* whose new column only another database's table has
MappingPool == { <<"Color", "ATTR_1">>, <<"name", "name">>, <<"ghost", "attr_1">> }

\* common columns a comparator may be handed
ColumnPool == {"name", "sku_code"}

\* the entries of a Map have distinct keys
DistinctKeys(map) ==
  \A i, j \in 1..Len(map) : map[i][1] = map[j][1] => i = j

\* every pair of flat tables holding at most `max` rows together
FlatSnapshots(max) ==
  UNION { { [old |-> [columnNames |-> OldFlatColumnNames, rows |-> o],
             new |-> [columnNames |-> NewFlatColumnNames, rows |-> n]]
              : o \in {q \in SeqsUpTo(OldFlatRows, k) : Len(q) = k},
                n \in SeqsUpTo(NewFlatRows, max - k) }
          : k \in 0..max }

InitCompare ==
  /\ \E snap \in FlatSnapshots(MaxFlatRows) :
       \/ \E kind \in {"attribute", "category"} :
            \E map \in {m \in SeqsUpTo(MappingPool, MaxMappings) : DistinctKeys(m)} :
              compareIn = [kind |-> kind, old |-> snap.old, new |-> snap.new, items |-> map]
       \/ \E cols \in SeqsUpTo(ColumnPool, MaxMappings) :
            compareIn = [kind |-> "common", old |-> snap.old, new |-> snap.new, items |-> cols]
  /\ compareOut = NotRun
  /\ IdlePrice
  /\ IdleResolve
  /\ IdleBatch
  /\ IdleGroup

\* at most one query of a comparator run meets a transient error (0: none)
TransientFailures(items) == {{}} \cup {{i} : i \in 1..Len(items)}

\* verifyDatabase step 6
CompareAttributes ==
  /\ compareIn.kind = "attribute"
  /\ compareOut = NotRun
  /\ \E failing \in TransientFailures(compareIn.items) :
       compareOut' = [run |-> TRUE, failing |-> failing,
                      out |-> compareAttributeValues(compareIn.old, compareIn.new,
                                                     compareIn.items, failing)]
  /\ UNCHANGED <<compareIn, priceVars, resolveVars, batchVars, groupVars>>

\* verifyDatabase step 7
CompareCategories ==
  /\ compareIn.kind = "category"
  /\ compareOut = NotRun
  /\ \E failing \in TransientFailures(compareIn.items) :
       compareOut' = [run |-> TRUE, failing |-> failing,
                      out |-> compareCategoryValues(compareIn.old, compareIn.new,
                                                    compareIn.items, failing)]
  /\ UNCHANGED <<compareIn, priceVars, resolveVars, batchVars, groupVars>>

\* verifyDatabase step 8
CompareCommon ==
  /\ compareIn.kind = "common"
  /\ compareOut = NotRun
  /\ \E failing \in TransientFailures(compareIn.items) :
       compareOut' = [run |-> TRUE, failing |-> failing,
                      out |-> compareCommonColumns(compareIn.old, compareIn.new,
                                                   compareIn.items, failing)]
  /\ UNCHANGED <<compareIn, priceVars, resolveVars, batchVars, groupVars>>

NextCompare == CompareAttributes \/ CompareCategories \/ CompareCommon

SpecCompare == InitCompare /\ [][NextCompare]_vars

(***************************************************************************)
(* Specification of the SKU-existence check over every bounded pair of     *)
(* flat tables (the tables of SpecCompare; both have sku_code and name).   *)
(***************************************************************************)
InitSku ==
  /\ \E snap \in FlatSnapshots(MaxFlatRows) :
       compareIn = [kind |-> "sku", old |-> snap.old, new |-> snap.new]
  /\ compareOut = NotRun
  /\ IdlePrice
  /\ IdleResolve
  /\ IdleBatch
  /\ IdleGroup

\* verifyDatabase step 5: const skuMismatches = await verifySkuCodeMatches(connection)
CheckSkuExistence ==
  /\ compareIn.kind = "sku"
  /\ compareOut = NotRun
  /\ ~(SkuQueryFails(compareIn.old, compareIn.new) \/ SkuQueryFails(compareIn.new, compareIn.old))
  /\ compareOut' = [run |-> TRUE,
                    out |-> verifySkuCodeMatches(compareIn.old, compareIn.new)]
  /\ UNCHANGED <<compareIn, priceVars, resolveVars, batchVars, groupVars>>

NextSku == CheckSkuExistence

SpecSku == InitSku /\ [][NextSku]_vars

(***************************************************************************)
(* Specification of the batch: main and verifyDatabase, one action per     *)
(* step, over every bounded tenant list, every assignment of the           *)
(* databases below to the tenants and every mapping-file pair below.       *)
(* Any query may meet an error of the store; connecting may fail.          *)
(***************************************************************************)
\* tenants in TENANT_DBS
MaxTenants == 2

TenantNames == <<"tenant_a", "tenant_b", "tenant_c", "tenant_d">>

OnePriceRow(mrp) ==
  [sku_code |-> "A1", price_book_id |-> "pb1", mrp |-> mrp, rsp |-> "10", spp |-> "10"]

PriceColumnNames == {"sku_code", "price_book_id", "mrp", "rsp", "spp"}

\* a tenant database with every mapped column, whose data differ in one
\* attribute and one price
FullDatabase ==
  [vendor_sku_flat_table |->
     [columnNames |-> {"sku_code", "name", "ATTR_1", "brand_name", "sku"},
      rows |-> << [sku_code |-> "S1", name |-> "n", attr_1 |-> "x",
                   brand_name |-> "b", sku |-> "k"] >>],
   im_sku_flat_table |->
     [columnNames |-> {"sku_code", "name", "Color", "brand", "SKU"},
      rows |-> << [sku_code |-> "S1", name |-> "n", color |-> "y",
                   brand |-> "b", sku |-> "k2"] >>],
   vendor_item_price_mapping |->
     [columnNames |-> PriceColumnNames, rows |-> {OnePriceRow("10")}],
   im_sku_price_mapping |->
     [columnNames |-> PriceColumnNames, rows |-> {OnePriceRow("12")}]]

\* a tenant database without the attribute columns and without spp in the
\* new price table; one SKU exists on the new side only
ThinDatabase ==
  [vendor_sku_flat_table |->
     [columnNames |-> {"sku_code", "name"},
      rows |-> << [sku_code |-> "S1", name |-> "n"] >>],
   im_sku_flat_table |->
     [columnNames |-> {"sku_code", "name"},
      rows |-> << [sku_code |-> "S1", name |-> NULL], [sku_code |-> "S2", name |-> "m"] >>],
   vendor_item_price_mapping |->
     [columnNames |-> PriceColumnNames, rows |-> {OnePriceRow("10")}],
   im_sku_price_mapping |->
     [columnNames |-> PriceColumnNames \ {"spp"}, rows |-> {}]]

\* a tenant database whose old flat table has no sku_code column
KeylessDatabase ==
  [vendor_sku_flat_table |->
     [columnNames |-> {"name", "ATTR_1"},
      rows |-> << [name |-> "n", attr_1 |-> "x"] >>],
   im_sku_flat_table |->
     [columnNames |-> {"sku_code", "name", "Color"},
      rows |-> << [sku_code |-> "S1", name |-> "n", color |-> "x"] >>],
   vendor_item_price_mapping |->
     [columnNames |-> PriceColumnNames, rows |-> {}],
   im_sku_price_mapping |->
     [columnNames |-> PriceColumnNames, rows |-> {}]]

Databases == {FullDatabase, ThinDatabase, KeylessDatabase}

\* the lines of schemas/attribute-mappings and schemas/category-mappings:
\* resolvable mappings, mappings onto ignored old columns, mappings nothing
\* resolves, a new-side column that carries an ignored name, a line
\* without '->'
MappingFiles ==
  { [attribute |-> << <<"Color", "ATTR_1">>, <<"brand", "brand_name">> >>,
     category |-> << <<"name", "name">>, <<"size", "attr_2">> >>],
    [attribute |-> << <<"sku", "ATTR_1">>, <<"ghost", "attr_1">> >>,
     category |-> << <<"Color", "sku">> >>],
    [attribute |-> << <<"Color", "ATTR_1">> >>,
     category |-> << <<"color">> >>] }

\* process.env, the two mapping files and the server
Environments ==
  UNION { [credentials : BOOLEAN,
           tenantDbs : {SubSeq(TenantNames, 1, n)},
           files : MappingFiles,
           server : [{TenantNames[k] : k \in 1..n} -> Databases]]
          : n \in 0..MaxTenants }

LogRecord(level, event) == [level |-> level, event |-> event]

\* the message each catch block that a tenant run can enter writes with
\* logger.error (the catch blocks of the comparators write a warning per
\* failed query themselves, see CompareLoop)
CatchMessage ==
  [getTableColumns |-> "Error getting columns for table",
   verifyAttributeColumns |-> "Error verifying attribute columns",
   verifyCommonColumns |-> "Error verifying common columns",
   verifySkuCodeMatches |-> "Error verifying SKU code matches",
   verifyPriceColumns |-> "Error verifying price columns",
   comparePrices |-> "Error comparing prices",
   verifyDatabase |-> "Error verifying database"]

\* a mutation of CatchLog: the catch block logs nothing
CatchLog_Silent(site) == <<>>

\* catch (error) { logger.error(<message of the site>, error); ... }
CatchLog(site) == <<LogRecord("error", CatchMessage[site])>>

RECURSIVE CatchLogs(_)
\* the records of the catch blocks an exception passes through, innermost first
CatchLogs(sites) ==
  IF sites = <<>> THEN <<>> ELSE CatchLog(Head(sites)) \o CatchLogs(Tail(sites))

\* the name of each numbered step of verifyDatabase that can throw
StepName ==
  [s \in {2, 3, 4, 5, 9, 10} |->
     CASE s = 2 -> "resolve_attributes" [] s = 3 -> "resolve_categories"
       [] s = 4 -> "resolve_common" [] s = 5 -> "check_sku"
       [] s = 9 -> "check_price_prerequisites" [] s = 10 -> "compare_prices"]

\* if (!process.env.DB_USER || !process.env.DB_PASSWORD)
CredentialsMissing(e) == ~e.credentials

\* a mutation of NoTenants: an empty tenant list is let through
NoTenants_Never(e) == FALSE

\* if (tenantDbs.length === 0)
NoTenants(e) == Len(e.tenantDbs) = 0

\* a mutation of AfterCommonResolution: the comparators follow at once
AfterCommonResolution_SkipsSkuCheck == "step6"

\* after the three resolutions and their report: step 5
AfterCommonResolution == "step5"

\* a mutation of AfterTry: the normal path returns without the finally block
AfterTry_SkipsFinally == "return"

\* the finally block follows the try block when nothing was thrown
AfterTry == "finally"

\* a mutation of ResultsAtEntry: one results object is shared by the calls
ResultsAtEntry_Shared(earlier) ==
  IF earlier = <<>> THEN EmptyResults ELSE earlier[Len(earlier)].results

\* const results = { ... } is created inside verifyDatabase, whatever calls
\* were made before
ResultsAtEntry(earlier) == EmptyResults

\* the state of a verifyDatabase call that has just been entered: its
\* locals, `passed` (the argument of each comparator call), the events of
\* its connection, the records it logged, the steps it entered and the
\* catch blocks it entered
NewRun(dbName) ==
  [pc |-> "connect", db |-> dbName, connection |-> "none", ends |-> 0,
   snapshot |-> Unset,
   validMappings |-> Unset, missingAttributeColumns |-> Unset,
   validCategoryMappings |-> Unset, missingCategoryColumns |-> Unset,
   availableColumns |-> Unset, passed |-> <<>>,
   results |-> ResultsAtEntry(finished), trace |-> <<>>, log |-> <<>>,
   steps |-> <<>>, catches |-> <<>>,
   failedStep |-> 0, rethrow |-> FALSE]

\* a step threw: the exception passed the catch blocks `sites`, each of
\* which logged and rethrew, and control passes to the catch block of
\* verifyDatabase
Throw(r, step, events, sites) ==
  [r EXCEPT !.pc = "catch", !.failedStep = step,
            !.steps = Append(@, StepName[step]),
            !.trace = @ \o events,
            !.catches = @ \o sites, !.log = @ \o CatchLogs(sites)]

\* what is kept of a verifyDatabase call once it has ended
Summary(r, connected, returned) ==
  [db |-> r.db, connected |-> connected, returned |-> returned,
   failedStep |-> r.failedStep, ends |-> r.ends,
   errorLogged |-> \E k \in 1..Len(r.log) : r.log[k] = LogRecord("error", "Error verifying database"),
   steps |-> r.steps,
   results |-> r.results, reported |-> FALSE]

Init ==
  /\ env \in Environments
  /\ mainPc = "start"
  /\ loaded = NotRun
  /\ tenant = 0
  /\ run = NoRun
  /\ finished = <<>>
  /\ mainLog = <<>>
  /\ IdlePrice
  /\ IdleResolve
  /\ IdleCompare
  /\ IdleGroup

\* main: the two configuration checks; process.exit(1) ends the process
CheckConfiguration ==
  /\ mainPc = "start"
  /\ IF CredentialsMissing(env)
     THEN /\ mainLog' = Append(mainLog, LogRecord("error", "Database credentials not provided"))
          /\ mainPc' = "exited"
     ELSE IF NoTenants(env)
     THEN /\ mainLog' = Append(mainLog, LogRecord("error", "No tenant databases specified"))
          /\ mainPc' = "exited"
     ELSE /\ mainLog' = mainLog
          /\ mainPc' = "load"
  /\ UNCHANGED <<env, loaded, tenant, run, finished, priceVars, resolveVars, compareVars, groupVars>>

\* main: reportGenerator.initialize(), loadAttributeMappings(), loadCategoryMappings()
LoadMappingFiles ==
  /\ mainPc = "load"
  /\ loaded' = [run |-> TRUE,
                attributeMappings |-> loadAttributeMappings(env.files.attribute),
                categoryMappings |-> loadCategoryMappings(env.files.category)]
  /\ mainPc' = "loop"
  /\ UNCHANGED <<env, tenant, run, finished, mainLog, priceVars, resolveVars, compareVars, groupVars>>

\* main: for (const dbName of tenantDbs) verifyDatabase(dbName.trim(), ...)
NextTenant ==
  /\ mainPc = "loop"
  /\ tenant < Len(env.tenantDbs)
  /\ tenant' = tenant + 1
  /\ run' = NewRun(env.tenantDbs[tenant + 1])
  /\ mainPc' = "verify"
  /\ UNCHANGED <<env, loaded, finished, mainLog, priceVars, resolveVars, compareVars, groupVars>>

\* verifyDatabase step 1: mysql.createConnection, awaited before the try
\* block is entered; a rejection leaves verifyDatabase at once
Connect ==
  /\ mainPc = "verify" /\ run.pc = "connect"
  /\ \E connects \in BOOLEAN :
       IF connects
       THEN /\ run' = [run EXCEPT !.pc = "step2", !.connection = "open"]
            /\ UNCHANGED <<mainPc, finished, groupVars>>
       ELSE /\ run' = NoRun
            /\ finished' = Append(finished, Summary(run, FALSE, FALSE))
            /\ mainPc' = "fatal"
  /\ UNCHANGED <<env, loaded, tenant, mainLog, priceVars, resolveVars, compareVars, groupVars>>

\* the flat tables and price tables of the database the connection selected
OldFlat == env.server[run.db]["vendor_sku_flat_table"]
NewFlat == env.server[run.db]["im_sku_flat_table"]
OldPrice == env.server[run.db]["vendor_item_price_mapping"]
NewPrice == env.server[run.db]["im_sku_price_mapping"]

\* the column lists a resolver reads with its two getTableColumns calls
ReadSnapshot ==
  [old |-> getTableColumns(env.server, "vendor_sku_flat_table"),
   new |-> getTableColumns(env.server, "im_sku_flat_table")]

\* one call of verifyAttributeColumns from verifyDatabase: `fault` is an
\* error of the store on the first catalog query
ResolveStep(step, mappings, fault) ==
  IF fault
  THEN [threw |-> TRUE, events |-> <<CatalogQuery(step)>>,
        sites |-> <<"getTableColumns", "verifyAttributeColumns">>]
  ELSE LET snap == ReadSnapshot
           out == verifyAttributeColumns(snap.old, snap.new, mappings)
       IN IF out.threw
          THEN [threw |-> TRUE, events |-> <<CatalogQuery(step), CatalogQuery(step)>>,
                sites |-> <<"verifyAttributeColumns">>]
          ELSE [threw |-> FALSE, events |-> <<CatalogQuery(step), CatalogQuery(step)>>,
                snapshot |-> snap, validMappings |-> out.validMappings,
                missingColumns |-> out.missingColumns]

\* verifyDatabase step 2: verifyAttributeColumns(connection, attributeMappings)
VerifyAttributeColumns ==
  /\ mainPc = "verify" /\ run.pc = "step2"
  /\ \E fault \in BOOLEAN :
       LET out == ResolveStep(2, loaded.attributeMappings, fault) IN
       run' = IF out.threw THEN Throw(run, 2, out.events, out.sites)
              ELSE [run EXCEPT !.pc = "step3", !.trace = @ \o out.events,
                               !.steps = Append(@, "resolve_attributes"),
                               !.snapshot = SetTo(out.snapshot),
                               !.validMappings = SetTo(out.validMappings),
                               !.missingAttributeColumns = SetTo(out.missingColumns)]
  /\ UNCHANGED <<env, mainPc, loaded, tenant, finished, mainLog,
                 priceVars, resolveVars, compareVars, groupVars>>

\* verifyDatabase step 3: verifyAttributeColumns(connection, categoryMappings)
VerifyCategoryColumns ==
  /\ mainPc = "verify" /\ run.pc = "step3"
  /\ \E fault \in BOOLEAN :
       LET out == ResolveStep(3, loaded.categoryMappings, fault) IN
       run' = IF out.threw THEN Throw(run, 3, out.events, out.sites)
              ELSE [run EXCEPT !.pc = "step4", !.trace = @ \o out.events,
                               !.steps = Append(@, "resolve_categories"),
                               !.snapshot = SetTo(out.snapshot),
                               !.validCategoryMappings = SetTo(out.validMappings),
                               !.missingCategoryColumns = SetTo(out.missingColumns)]
  /\ UNCHANGED <<env, mainPc, loaded, tenant, finished, mainLog,
                 priceVars, resolveVars, compareVars, groupVars>>

\* verifyDatabase step 4: verifyCommonColumns(connection), then the three
\* missing-column reports are stored in results and logged
VerifyCommonColumns ==
  /\ mainPc = "verify" /\ run.pc = "step4"
  /\ \E fault \in BOOLEAN :
       IF fault
       THEN run' = Throw(run, 4, <<CatalogQuery(4)>>,
                     <<"getTableColumns", "verifyCommonColumns">>)
       ELSE LET snap == ReadSnapshot
                out == verifyCommonColumns(snap.old, snap.new)
            IN run' = [run EXCEPT
                 !.pc = AfterCommonResolution,
                 !.steps = Append(@, "resolve_common"),
                 !.trace = @ \o <<CatalogQuery(4), CatalogQuery(4)>>,
                 !.snapshot = SetTo(snap),
                 !.availableColumns = SetTo(out.availableColumns),
                 !.results.missingAttributeColumns = run.missingAttributeColumns,
                 !.results.missingCategoryColumns = run.missingCategoryColumns,
                 !.results.missingCommonColumns = SetTo(out.missingColumns)]
  /\ UNCHANGED <<env, mainPc, loaded, tenant, finished, mainLog,
                 priceVars, resolveVars, compareVars, groupVars>>

\* verifyDatabase step 5: verifySkuCodeMatches(connection), two queries
VerifySkuCodes ==
  /\ mainPc = "verify" /\ run.pc = "step5"
  /\ \E fault \in BOOLEAN :
       LET first == QueryEvent(5, "sku", {"sku_code", "name"}, {"sku_code"})
           second == QueryEvent(5, "sku", {"sku_code"}, {"sku_code", "name"})
           failed == <<"verifySkuCodeMatches">>
       IN
       IF fault \/ SkuQueryFails(OldFlat, NewFlat)
       THEN run' = Throw(run, 5, <<first>>, failed)
       ELSE IF SkuQueryFails(NewFlat, OldFlat)
       THEN run' = Throw(run, 5, <<first, second>>, failed)
       ELSE run' = [run EXCEPT
              !.pc = "step6",
              !.steps = Append(@, "check_sku"),
              !.trace = @ \o <<first, second>>,
              !.results.skuMismatches = SetTo(verifySkuCodeMatches(OldFlat, NewFlat))]
  /\ UNCHANGED <<env, mainPc, loaded, tenant, finished, mainLog,
                 priceVars, resolveVars, compareVars, groupVars>>

\* verifyDatabase step 6: compareAttributeValues(connection, validMappings)
CompareAttributeValues ==
  /\ mainPc = "verify" /\ run.pc = "step6"
  /\ LET items == AttributeComparatorInput(run.validMappings.value, loaded.attributeMappings) IN
     \E failing \in TransientFailures(items) :
       LET out == compareAttributeValues(OldFlat, NewFlat, items, failing) IN
       run' = [run EXCEPT
         !.pc = "step7",
         !.steps = Append(@, "compare_attributes"),
         !.catches = @ \o FailedQueries(OldFlat, NewFlat, items, failing),
         !.passed = Append(@, [step |-> 6, items |-> items]),
         !.trace = @ \o IssuedQueries(6, items),
         !.log = @ \o out.log,
         !.results.attributeMismatches = SetTo(out.mismatches)]
  /\ UNCHANGED <<env, mainPc, loaded, tenant, finished, mainLog,
                 priceVars, resolveVars, compareVars, groupVars>>

\* verifyDatabase step 7: compareCategoryValues(connection, validCategoryMappings)
CompareCategoryValues ==
  /\ mainPc = "verify" /\ run.pc = "step7"
  /\ LET items == run.validCategoryMappings.value IN
     \E failing \in TransientFailures(items) :
       LET out == compareCategoryValues(OldFlat, NewFlat, items, failing) IN
       run' = [run EXCEPT
         !.pc = "step8",
         !.steps = Append(@, "compare_categories"),
         !.catches = @ \o FailedQueries(OldFlat, NewFlat, items, failing),
         !.passed = Append(@, [step |-> 7, items |-> items]),
         !.trace = @ \o IssuedQueries(7, items),
         !.log = @ \o out.log,
         !.results.categoryMismatches = SetTo(out.mismatches)]
  /\ UNCHANGED <<env, mainPc, loaded, tenant, finished, mainLog,
                 priceVars, resolveVars, compareVars, groupVars>>

\* verifyDatabase step 8: compareCommonColumns(connection, availableColumns)
CompareCommonColumns ==
  /\ mainPc = "verify" /\ run.pc = "step8"
  /\ LET columns == run.availableColumns.value IN
     \E failing \in TransientFailures(columns) :
       LET out == compareCommonColumns(OldFlat, NewFlat, columns, failing) IN
       run' = [run EXCEPT
         !.pc = "step9",
         !.steps = Append(@, "compare_common"),
         !.catches = @ \o FailedQueries(OldFlat, NewFlat, CommonItems(columns), failing),
         !.passed = Append(@, [step |-> 8, items |-> CommonItems(columns)]),
         !.trace = @ \o IssuedQueries(8, CommonItems(columns)),
         !.log = @ \o out.log,
         !.results.commonColumnMismatches = SetTo(out.mismatches)]
  /\ UNCHANGED <<env, mainPc, loaded, tenant, finished, mainLog,
                 priceVars, resolveVars, compareVars, groupVars>>

\* verifyDatabase step 9: verifyPriceColumns(connection), two catalog queries
VerifyPriceColumns ==
  /\ mainPc = "verify" /\ run.pc = "step9"
  /\ \E fault \in BOOLEAN :
       IF fault
       THEN run' = Throw(run, 9, <<CatalogQuery(9)>>, <<"verifyPriceColumns">>)
       ELSE run' = [run EXCEPT
              !.pc = "step10",
              !.steps = Append(@, "check_price_prerequisites"),
              !.trace = @ \o <<CatalogQuery(9), CatalogQuery(9)>>,
              !.results.missingPriceColumns =
                 SetTo(verifyPriceColumns(
                         getTableColumns(env.server, "vendor_item_price_mapping"),
                         getTableColumns(env.server, "im_sku_price_mapping")))]
  /\ UNCHANGED <<env, mainPc, loaded, tenant, finished, mainLog,
                 priceVars, resolveVars, compareVars, groupVars>>

\* verifyDatabase step 10: comparePrices(connection) when no price column
\* is missing, otherwise the comparison is skipped with a warning
ComparePricesOrSkip ==
  /\ mainPc = "verify" /\ run.pc = "step10"
  /\ IF PriceGateOpen(run.results.missingPriceColumns.value)
     THEN \E fault \in BOOLEAN :
            LET query == QueryEvent(10, "price", {}, {}) IN
            IF fault \/ PriceQueryFails(OldPrice, NewPrice)
            THEN run' = Throw(run, 10, <<query>>, <<"comparePrices">>)
            ELSE \E res \in comparePrices(OldPrice.rows, NewPrice.rows, NoLimit) :
                   run' = [run EXCEPT
                     !.pc = AfterTry,
                     !.steps = Append(@, "compare_prices"),
                     !.trace = Append(@, query),
                     !.results.priceMismatches = SetTo(res)]
     ELSE run' = [run EXCEPT
            !.pc = AfterTry,
            !.steps = Append(@, "skip_prices"),
            !.log = Append(@, LogRecord("warning", "Skipping price comparison"))]
  /\ UNCHANGED <<env, mainPc, loaded, tenant, finished, mainLog,
                 priceVars, resolveVars, compareVars, groupVars>>

\* verifyDatabase: catch (error) { logger.error(`Error verifying database ...`) }
CatchStepError ==
  /\ mainPc = "verify" /\ run.pc = "catch"
  /\ run' = [run EXCEPT
       !.pc = AfterCatch,
       !.rethrow = CatchRethrows,
       !.catches = Append(@, "verifyDatabase"),
       !.log = @ \o CatchLog("verifyDatabase")]
  /\ UNCHANGED <<env, mainPc, loaded, tenant, finished, mainLog,
                 priceVars, resolveVars, compareVars, groupVars>>

\* verifyDatabase step 11: finally { await connection.end() }
Disconnect ==
  /\ mainPc = "verify" /\ run.pc = "finally"
  /\ run' = [run EXCEPT
       !.pc = "return",
       !.connection = "ended",
       !.ends = @ + 1,
       !.steps = Append(@, "disconnect"),
       !.trace = Append(@, EndEvent)]
  /\ UNCHANGED <<env, mainPc, loaded, tenant, finished, mainLog,
                 priceVars, resolveVars, compareVars, groupVars>>

\* verifyDatabase: return results (an error passed on by the catch block
\* would reject the call instead and reach the catch block of main)
ReturnResults ==
  /\ mainPc = "verify" /\ run.pc = "return"
  /\ finished' = Append(finished, Summary(run, TRUE, ~run.rethrow))
  /\ mainPc' = IF run.rethrow THEN "fatal" ELSE "report"
  /\ run' = NoRun
  /\ UNCHANGED <<env, loaded, tenant, mainLog, priceVars, resolveVars, compareVars, groupVars>>

\* main: reportGenerator.generateDatabaseReport(dbName.trim(), results)
GenerateDatabaseReport ==
  /\ mainPc = "report"
  /\ finished' = [finished EXCEPT ![Len(finished)].reported = TRUE]
  /\ mainPc' = "loop"
  /\ UNCHANGED <<env, loaded, tenant, run, mainLog, priceVars, resolveVars, compareVars, groupVars>>

\* main: after the loop, generateIndexPage and the closing log lines
GenerateIndexPage ==
  /\ mainPc = "loop"
  /\ tenant = Len(env.tenantDbs)
  /\ mainLog' = Append(mainLog, LogRecord("info", "Verification process completed"))
  /\ mainPc' = "done"
  /\ UNCHANGED <<env, loaded, tenant, run, finished, priceVars, resolveVars, compareVars, groupVars>>

\* main: catch (error) { logger.error('Fatal error:', error); process.exit(1) }
FatalError ==
  /\ mainPc = "fatal"
  /\ mainLog' = Append(mainLog, LogRecord("error", "Fatal error"))
  /\ mainPc' = "exited"
  /\ UNCHANGED <<env, loaded, tenant, run, finished, priceVars, resolveVars, compareVars, groupVars>>

Next ==
  \/ CheckConfiguration \/ LoadMappingFiles \/ NextTenant \/ Connect
  \/ VerifyAttributeColumns \/ VerifyCategoryColumns \/ VerifyCommonColumns
  \/ VerifySkuCodes \/ CompareAttributeValues \/ CompareCategoryValues
  \/ CompareCommonColumns \/ VerifyPriceColumns \/ ComparePricesOrSkip
  \/ CatchStepError \/ Disconnect \/ ReturnResults
  \/ GenerateDatabaseReport \/ GenerateIndexPage \/ FatalError

Spec == Init /\ [][Next]_vars

(***************************************************************************)
(* Specification of the batch for one tenant whose two sides hold the same *)
(* data under complete schemas: the same main and verifyDatabase actions,  *)
(* over every bounded pair of mirrored flat tables and the mirrored price  *)
(* tables below.                                                           *)
(***************************************************************************)
\* rows in each flat table of the mirrored tenant
MaxMirrorRows == 2

\* both flat tables hold every desired common column and the mapped columns
MirrorOldColumnNames ==
  {desiredCommonColumns[k] : k \in 1..Len(desiredCommonColumns)} \cup {"ATTR_1", "brand_name"}

MirrorNewColumnNames ==
  {desiredCommonColumns[k] : k \in 1..Len(desiredCommonColumns)} \cup {"Color", "brand"}

\* a flat-table row over the given columns: its key, its name, the value of
\* its attribute column, and one fixed value in every other column
FlatRowOver(columnNames, attributeColumn, sku, name, value) ==
  [c \in LowerCasedNames(columnNames) |->
     IF c = "sku_code" THEN sku
     ELSE IF c = "name" THEN name
     ELSE IF c = attributeColumn THEN value
     ELSE "v"]

\* what a mirrored entity may hold: a key that may be NULL, a name, one of
\* two attribute values
MirrorEntities == [sku : {"S1", NULL}, name : {"n"}, value : {"x", "y"}]

\* the same price rows on both sides: none, one row, one row without a
\* price book
MirrorPriceRows ==
  { {}, {OnePriceRow("10")},
    {[sku_code |-> "A1", price_book_id |-> NULL, mrp |-> "10", rsp |-> "10", spp |-> "10"]} }

MirrorDatabase(entities, prices) ==
  [vendor_sku_flat_table |->
     [columnNames |-> MirrorOldColumnNames,
      rows |-> [k \in 1..Len(entities) |->
                  FlatRowOver(MirrorOldColumnNames, "attr_1",
                              entities[k].sku, entities[k].name, entities[k].value)]],
   im_sku_flat_table |->
     [columnNames |-> MirrorNewColumnNames,
      rows |-> [k \in 1..Len(entities) |->
                  FlatRowOver(MirrorNewColumnNames, "color",
                              entities[k].sku, entities[k].name, entities[k].value)]],
   vendor_item_price_mapping |-> [columnNames |-> PriceColumnNames, rows |-> prices],
   im_sku_price_mapping |-> [columnNames |-> PriceColumnNames, rows |-> prices]]

\* mapping files whose every column the mirrored schemas hold
MirrorFiles ==
  [attribute |-> << <<"Color", "ATTR_1">>, <<"brand", "brand_name">> >>,
   category |-> << <<"name", "name">> >>]

InitIdentical ==
  /\ \E entities \in SeqsUpTo(MirrorEntities, MaxMirrorRows), prices \in MirrorPriceRows :
       env = [credentials |-> TRUE,
              tenantDbs |-> SubSeq(TenantNames, 1, 1),
              files |-> MirrorFiles,
              server |-> [d \in {TenantNames[1]} |-> MirrorDatabase(entities, prices)]]
  /\ mainPc = "start"
  /\ loaded = NotRun
  /\ tenant = 0
  /\ run = NoRun
  /\ finished = <<>>
  /\ mainLog = <<>>
  /\ IdlePrice
  /\ IdleResolve
  /\ IdleCompare
  /\ IdleGroup

SpecIdentical == InitIdentical /\ [][Next]_vars

(***************************************************************************)
(* Specification of the grouping of the value mismatches by SKU code, as   *)
(* verifyDatabase does it for the log and generateMismatchTableHTML for    *)
(* the report, over every bounded triple of mismatch lists the comparators *)
(* can return (difference rows have a non-NULL sku_code).                  *)
(***************************************************************************)
\* difference rows in the three mismatch lists together
MaxGroupRows == 3

\* the sku_code values of the difference rows: two codes, the empty string
\* and the text the grouping uses as its fallback key
GroupSkus == {"S1", "S2", "", "N/A"}

GroupDiffRows == [sku_code : GroupSkus, old_value : {"x"}, new_value : {"y"}]

RECURSIVE SlotFills(_, _)
\* the ways to fill `slots` difference lists with at most `budget` rows
SlotFills(slots, budget) ==
  IF slots = 0 THEN {<<>>}
  ELSE UNION { {<<d>> \o rest : rest \in SlotFills(slots - 1, budget - Len(d))}
               : d \in SeqsUpTo(GroupDiffRows, budget) }

\* a comparator pushes a record only if (results.length > 0)
PushedRecords(records) == SelectSeq(records, LAMBDA m : m.differences # <<>>)

\* the lists of two attribute mappings, one category mapping and one
\* common column whose difference rows are the four fills
MismatchLists(fill) ==
  [attributeMismatches |-> PushedRecords(
       <<MismatchRecord("attribute", "attr_1", "color", fill[1]),
         MismatchRecord("attribute", "attr_2", "size", fill[2])>>),
   categoryMismatches |-> PushedRecords(
       <<MismatchRecord("category", "cat_1", "category", fill[3])>>),
   commonColumnMismatches |-> PushedRecords(
       <<MismatchRecord("common", "name", "name", fill[4])>>)]

\* m => ({ ...m, type: <type> })
WithType(mismatches, type) ==
  [k \in 1..Len(mismatches) |->
     [type |-> type, differences |-> mismatches[k].differences,
      old_column |-> IF type = "common" THEN UNDEFINED ELSE mismatches[k].old_column,
      new_column |-> IF type = "common" THEN UNDEFINED ELSE mismatches[k].new_column,
      column |-> IF type = "common" THEN mismatches[k].column ELSE UNDEFINED]]

\* [...attributeMismatches.map(..), ...categoryMismatches.map(..), ...commonColumnMismatches.map(..)]
AllMismatches(lists) ==
  WithType(lists.attributeMismatches, "attribute")
    \o WithType(lists.categoryMismatches, "category")
    \o WithType(lists.commonColumnMismatches, "common")

\* value || fallback: null, undefined and the empty string are falsy
OrElse(value, fallback) ==
  IF value = NULL \/ IsFalsy(value) THEN fallback ELSE value

\* type === 'attribute' || type === 'category' ?
\*   `${mismatch.old_column} -> ${mismatch.new_column}` : mismatch.column
ColumnNameOf(mismatch) ==
  IF mismatch.type \in {"attribute", "category"}
  THEN <<mismatch.old_column, "->", mismatch.new_column>>
  ELSE <<mismatch.column>>

\* type.charAt(0).toUpperCase() + type.slice(1)
ColumnTypeOf(type) ==
  CASE type = "attribute" -> "Attribute"
    [] type = "category" -> "Category"
    [] type = "common" -> "Common"

\* the object pushed to the list of a SKU code
GroupedRow(mismatch, diff) ==
  [column_name |-> ColumnNameOf(mismatch),
   column_type |-> ColumnTypeOf(mismatch.type),
   old_value |-> OrElse(diff.old_value, "null"),
   new_value |-> OrElse(diff.new_value, "null")]

\* const skuCode = diff.sku_code || 'N/A'
GroupKeyOf(diff) == OrElse(diff.sku_code, "N/A")

\* if (!skuMap.has(skuCode)) skuMap.set(skuCode, []); skuMap.get(skuCode).push(row)
\* (the Map is the sequence of its entries in insertion order)
PushToGroup(skuMap, skuCode, row) ==
  IF \E i \in 1..Len(skuMap) : skuMap[i].key = skuCode
  THEN [i \in 1..Len(skuMap) |->
          IF skuMap[i].key = skuCode
          THEN [key |-> skuCode, rows |-> Append(skuMap[i].rows, row)]
          ELSE skuMap[i]]
  ELSE Append(skuMap, [key |-> skuCode, rows |-> <<row>>])

RECURSIVE GroupDifferences(_, _, _)
\* mismatch.differences.forEach(diff => ...)
GroupDifferences(mismatch, differences, skuMap) ==
  IF differences = <<>> THEN skuMap
  ELSE GroupDifferences(mismatch, Tail(differences),
         PushToGroup(skuMap, GroupKeyOf(Head(differences)),
                     GroupedRow(mismatch, Head(differences))))

RECURSIVE GroupBySku(_, _)
\* mismatches.forEach(mismatch => ...)
GroupBySku(mismatches, skuMap) ==
  IF mismatches = <<>> THEN skuMap
  ELSE GroupBySku(Tail(mismatches),
         GroupDifferences(Head(mismatches), Head(mismatches).differences, skuMap))

InitGroup ==
  /\ groupIn \in {MismatchLists(fill) : fill \in SlotFills(4, MaxGroupRows)}
  /\ groupOut = NotRun
  /\ IdlePrice
  /\ IdleResolve
  /\ IdleCompare
  /\ IdleBatch

\* generateMismatchTableHTML([...attribute, ...category, ...common])
GroupMismatches ==
  /\ ~groupOut.run
  /\ groupOut' = [run |-> TRUE, skuMap |-> GroupBySku(AllMismatches(groupIn), <<>>)]
  /\ UNCHANGED <<groupIn, priceVars, resolveVars, compareVars, batchVars>>

NextGroup == GroupMismatches

SpecGroup == InitGroup /\ [][NextGroup]_vars

(***************************************************************************)
(* Claims about the price strategies (checked under SpecPrice).            *)
(***************************************************************************)
KeysOf(records) == {<<r.sku_code, r.price_book_id>> : r \in records}

PriceFieldNames == {"mrp", "rsp", "spp"}

\* the mismatch records of `res` for the key of row r that list field f
ListingField(res, r, f) ==
  {m \in res.mismatches :
     /\ m.sku_code = r.sku_code /\ m.price_book_id = r.price_book_id
     /\ \E i \in 1..Len(m.differences) : m.differences[i].field = f}

\* rows o (old) and n (new) carry the same, fully non-NULL key
SamePriceKey(o, n) ==
  /\ o.sku_code # NULL /\ o.price_book_id # NULL
  /\ o.sku_code = n.sku_code /\ o.price_book_id = n.price_book_id

\* C1: run without a row cap against one snapshot, comparePricesOriginal and
\* comparePricesOptimized return the same key sets in missing.missingInNew,
\* in missing.missingInOld and in mismatches.
C1_StrategiesAgree ==
  (bench.run /\ bench.limit = NoLimit) =>
    /\ KeysOf(bench.original.missing.missingInNew)
         = KeysOf(bench.optimized.missing.missingInNew)
    /\ KeysOf(bench.original.missing.missingInOld)
         = KeysOf(bench.optimized.missing.missingInOld)
    /\ KeysOf(bench.original.mismatches) = KeysOf(bench.optimized.mismatches)

\* C5: in the result of comparePrices, for every key present on both sides,
\* a price field that is NULL on exactly one side is listed in a mismatch
\* record of that key whatever the other two fields hold, and a field that
\* is NULL on both sides is never listed as a difference.
C5_OneSidedNullPriceReported ==
  priceResult.run =>
    \A o \in oldPriceTable, n \in newPriceTable :
      SamePriceKey(o, n) =>
        \A f \in PriceFieldNames :
          /\ ((o[f] = NULL) # (n[f] = NULL)) => ListingField(priceResult.result, o, f) # {}
          /\ \A m \in priceResult.result.mismatches :
               \A i \in 1..Len(m.differences) :
                 ~(m.differences[i].old_value = NULL /\ m.differences[i].new_value = NULL)

(***************************************************************************)
(* Claims about the loader and the resolvers (checked under SpecResolve).  *)
(***************************************************************************)
AttributeResolved == resolveOut.attribute.run /\ ~resolveOut.attribute.out.threw

OldSnapshot == LowerCasedNames(resolveIn.oldColumnNames)
NewSnapshot == LowerCasedNames(resolveIn.newColumnNames)

\* C2: every mapping verifyAttributeColumns puts in validMappings has its
\* old column in the old-table column set and its new column in the
\* new-table column set, compared case-insensitively.
C2_ValidMappingsResolved ==
  AttributeResolved =>
    \A i \in 1..Len(resolveOut.attribute.out.validMappings) :
      LET m == resolveOut.attribute.out.validMappings[i] IN
        /\ toLowerCase(m[2]) \in OldSnapshot
        /\ toLowerCase(m[1]) \in NewSnapshot

\* a run that kept a mapping spelled in another case than the schema and
\* rejected another mapping of the same file
C2_Witness ==
  /\ AttributeResolved
  /\ Includes(resolveOut.attribute.out.validMappings, <<"Color", "ATTR_1">>)
  /\ resolveOut.attribute.out.missingColumns.newTable # <<>>

(***************************************************************************)
(* Claims about the comparators (checked under SpecCompare).               *)
(***************************************************************************)
\* the comparator's input as <<newCol, oldCol>> pairs
ComparedItems ==
  IF compareIn.kind = "common"
  THEN [k \in 1..Len(compareIn.items) |-> <<compareIn.items[k], compareIn.items[k]>>]
  ELSE compareIn.items

\* positions whose query was issued and failed / was issued and answered
FailedPositions ==
  {i \in 1..Len(ComparedItems) :
     /\ ~(IsFalsy(ComparedItems[i][1]) \/ IsFalsy(ComparedItems[i][2]))
     /\ QueryFails(compareIn.old, compareIn.new, ComparedItems[i][2], ComparedItems[i][1],
                   i, compareOut.failing)}

AnsweredPositions ==
  {i \in 1..Len(ComparedItems) :
     /\ ~(IsFalsy(ComparedItems[i][1]) \/ IsFalsy(ComparedItems[i][2]))
     /\ i \notin FailedPositions}

\* the difference rows the output holds for the pair <<newCol, oldCol>>
ReportedRows(item) ==
  LET recs == {k \in 1..Len(compareOut.out.mismatches) :
                 IF compareIn.kind = "common"
                 THEN compareOut.out.mismatches[k].column = item[2]
                 ELSE /\ compareOut.out.mismatches[k].old_column = item[2]
                      /\ compareOut.out.mismatches[k].new_column = item[1]}
  IN UNION { {compareOut.out.mismatches[k].differences[d]
                : d \in 1..Len(compareOut.out.mismatches[k].differences)} : k \in recs }

\* row pairs of the two flat tables that share a non-NULL sku_code
SharedSkuPairs ==
  {p \in {<<compareIn.old.rows[i], compareIn.new.rows[j]>> :
            i \in 1..Len(compareIn.old.rows), j \in 1..Len(compareIn.new.rows)} :
     p[1].sku_code # NULL /\ p[1].sku_code = p[2].sku_code}

DiffRow(p, item) ==
  [sku_code |-> p[1].sku_code,
   old_value |-> FieldOf(p[1], item[2]), new_value |-> FieldOf(p[2], item[1])]

\* C4: for every sku_code present and non-NULL in both flat tables and every
\* compared column pair: no mismatch row when both values are NULL, always
\* one when exactly one is NULL, and when both are non-NULL one exactly when
\* they are unequal.
C4_NullAwareComparison ==
  compareOut.run =>
    \A i \in AnsweredPositions : \A p \in SharedSkuPairs :
      LET a == FieldOf(p[1], ComparedItems[i][2])
          b == FieldOf(p[2], ComparedItems[i][1])
          reported == DiffRow(p, ComparedItems[i]) \in ReportedRows(ComparedItems[i])
      IN /\ (a = NULL /\ b = NULL) => ~reported
         /\ ((a = NULL) # (b = NULL)) => reported
         /\ (a # NULL /\ b # NULL) => (reported <=> a # b)

\* a run that compared one column pair NULL on both sides and another NULL
\* on one side only, for the same SKU
C4_Witness ==
  /\ compareOut.run
  /\ \E i, j \in AnsweredPositions : \E p \in SharedSkuPairs :
       /\ FieldOf(p[1], ComparedItems[i][2]) = NULL
       /\ FieldOf(p[2], ComparedItems[i][1]) = NULL
       /\ FieldOf(p[1], ComparedItems[j][2]) = NULL
       /\ FieldOf(p[2], ComparedItems[j][1]) # NULL
       /\ DiffRow(p, ComparedItems[j]) \in ReportedRows(ComparedItems[j])

\* the input without the positions in `drop`
OmitPositions(items, drop) ==
  LET keep == {i \in 1..Len(items) : i \notin drop}
      nth(k) == CHOOSE i \in keep : Cardinality({j \in keep : j < i}) = k - 1
  IN [k \in 1..Cardinality(keep) |-> items[nth(k)]]

RunComparator(kind, oldTable, newTable, items, failing) ==
  CASE kind = "attribute" -> compareAttributeValues(oldTable, newTable, items, failing)
    [] kind = "category" -> compareCategoryValues(oldTable, newTable, items, failing)
    [] kind = "common" -> compareCommonColumns(oldTable, newTable, items, failing)

\* C7: a comparator whose query fails for one mapping or column logs a
\* warning for it, goes on with the remaining ones, and returns exactly the
\* mismatch list it returns for the input without the failing mappings; it
\* never throws.
C7_FailedMappingSkipped ==
  compareOut.run =>
    /\ ~compareOut.out.threw
    /\ compareOut.out.mismatches =
         RunComparator(compareIn.kind, compareIn.old, compareIn.new,
                       OmitPositions(compareIn.items, FailedPositions), {}).mismatches
    /\ \A i \in FailedPositions :
         \E k \in 1..Len(compareOut.out.log) :
           /\ compareOut.out.log[k].level = "warning"
           /\ compareOut.out.log[k].event = "query_failed"
           /\ compareOut.out.log[k].item = ComparedItems[i]

\* a run whose first query failed and whose second one reported mismatches
C7_Witness ==
  /\ compareOut.run
  /\ 1 \in FailedPositions
  /\ 2 \in AnsweredPositions
  /\ ReportedRows(ComparedItems[2]) # {}

(***************************************************************************)
(* Claims about a tenant run and the batch (specification Spec).           *)
(***************************************************************************)
\* a verifyDatabase call is in progress
InRun == run.pc # "none"

\* the events of the run that are comparison queries of a comparator
CompareEvents == {run.trace[k] : k \in {j \in 1..Len(run.trace) : run.trace[j].kind = "compare"}}

\* each of the names is, lower-cased, in the column list of the snapshot
ConfirmedIn(columnList, names) == \A c \in names : toLowerCase(c) \in columnList

\* the entries of a sequence
Entries(seq) == {seq[k] : k \in 1..Len(seq)}

\* the mappings of a loaded Map that resolution considers and that have a
\* side the snapshot does not hold
Unresolved(mappings, snap) ==
  {m \in Entries(mappings) :
     /\ ~Includes(IGNORED_COLUMNS.oldTable, m[2])
     /\ ~(ConfirmedIn(snap.old, {m[2]}) /\ ConfirmedIn(snap.new, {m[1]}))}

\* the mapping is listed in a missing-column report
Diagnosed(missingColumns, m) ==
  \E e \in Entries(missingColumns.oldTable) \cup Entries(missingColumns.newTable) :
    e.mapping = m

\* C3: in a tenant run every comparison query of the attribute, category and
\* common-column comparators names only columns (the compared pair and the
\* join key sku_code) that the schema snapshots of the run hold; every item
\* handed to a comparator has both sides in the snapshots; and a loaded
\* mapping with an unresolved side is in no comparator input and is listed
\* in the missing-column report of its kind
C3_ComparedColumnsConfirmed ==
  InRun =>
    /\ \A e \in CompareEvents :
         /\ run.snapshot.set
         /\ ConfirmedIn(run.snapshot.value.old, e.oldColumns)
         /\ ConfirmedIn(run.snapshot.value.new, e.newColumns)
    /\ \A p \in Entries(run.passed) : \A it \in Entries(p.items) :
         /\ ConfirmedIn(run.snapshot.value.old, {it[2]})
         /\ ConfirmedIn(run.snapshot.value.new, {it[1]})
    /\ run.results.missingAttributeColumns.set =>
         \A m \in Unresolved(loaded.attributeMappings, run.snapshot.value) :
           /\ Diagnosed(run.results.missingAttributeColumns.value, m)
           /\ \A p \in Entries(run.passed) : p.step = 6 => m \notin Entries(p.items)
    /\ run.results.missingCategoryColumns.set =>
         \A m \in Unresolved(loaded.categoryMappings, run.snapshot.value) :
           /\ Diagnosed(run.results.missingCategoryColumns.value, m)
           /\ \A p \in Entries(run.passed) : p.step = 7 => m \notin Entries(p.items)

\* the three comparators have run; the attribute comparator sent a query
\* while another loaded attribute mapping was unresolved
C3_Witness ==
  /\ InRun /\ run.pc = "step9"
  /\ \E e \in CompareEvents : e.step = 6
  /\ Unresolved(loaded.attributeMappings, run.snapshot.value) # {}

\* the old-side columns of the loaded mappings that the ignore list holds
IgnoredOldColumns(mappings) ==
  {m[2] : m \in {x \in Entries(mappings) : Includes(IGNORED_COLUMNS.oldTable, x[2])}}

\* the column is the old side of no valid mapping and of no entry of the
\* missing-column report
AbsentFromResolution(column, validMappings, missingColumns) ==
  /\ validMappings.set => \A m \in Entries(validMappings.value) : m[2] # column
  /\ missingColumns.set =>
       \A e \in Entries(missingColumns.value.oldTable)
                  \cup Entries(missingColumns.value.newTable) :
         e.mapping[2] # column

BatchEnded == mainPc \in {"done", "exited"}

\* C8: a tenant whose connection could not be opened does not stop the
\* batch: once main has ended, a verifyDatabase call was made for every
\* tenant of the list, those after the unreachable tenant included
C8_ConnectionErrorSparesLaterTenants ==
  BatchEnded =>
    \A k \in 1..Len(finished) :
      ~finished[k].connected => Len(finished) = Len(env.tenantDbs)

\* the step that assigns each field of results
StepOfResult ==
  [missingAttributeColumns |-> 4, missingCategoryColumns |-> 4,
   missingCommonColumns |-> 4, skuMismatches |-> 5, attributeMismatches |-> 6,
   categoryMismatches |-> 7, commonColumnMismatches |-> 8,
   missingPriceColumns |-> 9, priceMismatches |-> 10]

\* the record the catch block of verifyDatabase writes
StepErrorLogged(log) ==
  \E k \in 1..Len(log) : log[k] = LogRecord("error", "Error verifying database")

\* C9: when a step of a tenant run throws after the connection was opened,
\* the error is logged, no query of a later step is sent and no later step
\* stores a result, verifyDatabase returns its results to main, the report
\* of the tenant is generated and, when the batch has ended, the next
\* tenant of the list has been taken up
C9_StepFailureEndsTenantOnly ==
  /\ (InRun /\ run.failedStep # 0) =>
       /\ run.pc \in {"catch", "finally", "return"}
       /\ run.pc # "catch" => StepErrorLogged(run.log)
       /\ \A k \in 1..Len(run.trace) :
            run.trace[k].op = "query" => run.trace[k].step <= run.failedStep
       /\ \A f \in DOMAIN StepOfResult :
            StepOfResult[f] >= run.failedStep => run.results[f] = Unset
  /\ \A k \in 1..Len(finished) :
       finished[k].failedStep # 0 =>
         /\ finished[k].connected
         /\ finished[k].errorLogged
         /\ finished[k].returned
         /\ (k < Len(finished) \/ mainPc # "report") => finished[k].reported
         /\ (BatchEnded /\ k < Len(env.tenantDbs)) => Len(finished) > k

\* the batch ran to its end; a step of the first tenant threw and the
\* second tenant was connected and verified afterwards
C9_Witness ==
  /\ mainPc = "done"
  /\ Len(finished) = 2
  /\ finished[1].failedStep # 0
  /\ finished[2].connected /\ finished[2].reported

\* C10: in a tenant run whose connection was opened, connection.end is
\* called exactly once, as the last event of the connection: never before
\* the try block is left, once by the time verifyDatabase returns whether a
\* step threw or not, and no query follows it
C10_DisconnectOnceAfterLastStep ==
  /\ InRun =>
       /\ run.ends = Cardinality({k \in 1..Len(run.trace) : run.trace[k].op = "end"})
       /\ \A k \in 1..Len(run.trace) : run.trace[k].op = "end" => k = Len(run.trace)
       /\ run.pc \notin {"return"} => run.ends = 0 /\ run.connection # "ended"
       /\ run.pc = "return" => run.ends = 1 /\ run.connection = "ended"
  /\ \A k \in 1..Len(finished) :
       finished[k].ends = IF finished[k].connected THEN 1 ELSE 0

\* two tenant runs have ended, one after a failed step and one after the
\* last step, each with its connection ended
C10_Witness ==
  /\ Len(finished) = 2
  /\ finished[1].failedStep # 0 /\ finished[1].ends = 1
  /\ finished[2].connected /\ finished[2].failedStep = 0 /\ finished[2].ends = 1

(***************************************************************************)
(* Claims about a tenant with identical data (specification SpecIdentical).*)
(***************************************************************************)
\* the mappings of a loaded Map, both sides named
NamedMappings(mappings) ==
  {m \in Entries(mappings) : ~IsFalsy(m[1]) /\ ~IsFalsy(m[2])}

\* both schemas of the database hold every mapped column, every desired
\* common column and the five price columns
SchemasComplete(db, maps) ==
  /\ \A m \in Entries(maps.attributeMappings) \cup Entries(maps.categoryMappings) :
       /\ HasColumn(db["vendor_sku_flat_table"], m[2])
       /\ HasColumn(db["im_sku_flat_table"], m[1])
  /\ \A c \in Entries(desiredCommonColumns) :
       /\ HasColumn(db["vendor_sku_flat_table"], c)
       /\ HasColumn(db["im_sku_flat_table"], c)
  /\ PriceColumnNames \subseteq db["vendor_item_price_mapping"].columnNames
  /\ PriceColumnNames \subseteq db["im_sku_price_mapping"].columnNames

\* the two flat tables hold the same entities in the same order, equal in
\* the key, in every common column and across every mapped pair, and the
\* two price tables hold the same rows
DataIdentical(db, maps) ==
  LET old == db["vendor_sku_flat_table"].rows
      new == db["im_sku_flat_table"].rows
  IN /\ Len(old) = Len(new)
     /\ \A k \in 1..Len(old) :
          /\ \A c \in Entries(desiredCommonColumns) : FieldOf(old[k], c) = FieldOf(new[k], c)
          /\ \A m \in NamedMappings(maps.attributeMappings)
                        \cup NamedMappings(maps.categoryMappings) :
               FieldOf(old[k], m[2]) = FieldOf(new[k], m[1])
     /\ db["vendor_item_price_mapping"].rows = db["im_sku_price_mapping"].rows

\* every list of the result is there and empty
AllListsEmpty(results) ==
  /\ \A f \in {"missingAttributeColumns", "missingCategoryColumns",
               "missingCommonColumns", "missingPriceColumns"} :
       /\ results[f].set
       /\ results[f].value.oldTable = <<>> /\ results[f].value.newTable = <<>>
  /\ results.skuMismatches.set
  /\ results.skuMismatches.value.missingInNew = <<>>
  /\ results.skuMismatches.value.missingInOld = <<>>
  /\ \A f \in {"attributeMismatches", "categoryMismatches", "commonColumnMismatches"} :
       results[f].set /\ results[f].value = <<>>
  /\ results.priceMismatches.set
  /\ results.priceMismatches.value.mismatches = {}
  /\ results.priceMismatches.value.missing.missingInNew = {}
  /\ results.priceMismatches.value.missing.missingInOld = {}

\* C11: a tenant run in which no step failed, against a database whose
\* schemas are complete and whose two sides hold identical data, returns a
\* result in which every missing-column list, both SKU lists, the three
\* value-mismatch lists and the price mismatch and missing lists are empty
C11_IdenticalTenantHasEmptyResult ==
  \A k \in 1..Len(finished) :
    ( /\ finished[k].returned /\ finished[k].failedStep = 0
      /\ SchemasComplete(env.server[finished[k].db], loaded)
      /\ DataIdentical(env.server[finished[k].db], loaded) )
    => AllListsEmpty(finished[k].results)

(***************************************************************************)
(* Further claims about comparePrices (specification SpecPrice).           *)
(***************************************************************************)
\* rows r and q carry the same key value (a missing price book included)
SameKeyValue(r, q) == r.sku_code = q.sku_code /\ r.price_book_id = q.price_book_id

\* the records of a result list that carry the key of row r
ForKeyOf(records, r) == {m \in records : SameKeyValue(m, r)}

\* the price fields in which rows o and n differ
DifferingFields(o, n) == {f \in PriceFieldNames : o[f] # n[f]}

\* C12: for every price key held by exactly one old row and exactly one new
\* row that differ in exactly one of mrp, rsp, spp, both values non-NULL,
\* comparePrices returns exactly one mismatch record for the key, whose
\* differences are the one entry for that field with the old-side value as
\* old_value and the new-side value as new_value
C12_SingleFieldDifferenceReported ==
  priceResult.run =>
    \A o \in oldPriceTable, n \in newPriceTable :
      ( /\ SameKeyValue(o, n)
        /\ \A q \in oldPriceTable : SameKeyValue(q, o) => q = o
        /\ \A q \in newPriceTable : SameKeyValue(q, n) => q = n
        /\ Cardinality(DifferingFields(o, n)) = 1
        /\ \A f \in DifferingFields(o, n) : o[f] # NULL /\ n[f] # NULL )
      => \A f \in DifferingFields(o, n) :
           /\ Cardinality(ForKeyOf(priceResult.result.mismatches, o)) = 1
           /\ \A m \in ForKeyOf(priceResult.result.mismatches, o) :
                m.differences = << [field |-> f, old_value |-> o[f], new_value |-> n[f]] >>

\* C13: for every key held by a row of the old price table and by no row of
\* the new price table, comparePrices returns exactly one record for the key
\* in missing.missingInNew, carrying the old-side mrp, rsp and spp, and no
\* record for the key in missing.missingInOld or in mismatches
C13_AbsentFromNewReported ==
  priceResult.run =>
    \A o \in oldPriceTable :
      (\A n \in newPriceTable : ~SameKeyValue(o, n)) =>
        /\ Cardinality(ForKeyOf(priceResult.result.missing.missingInNew, o)) = 1
        /\ \A m \in ForKeyOf(priceResult.result.missing.missingInNew, o) :
             m.prices = [mrp |-> o.mrp, rsp |-> o.rsp, spp |-> o.spp]
        /\ ForKeyOf(priceResult.result.missing.missingInOld, o) = {}
        /\ ForKeyOf(priceResult.result.mismatches, o) = {}

\* the events of the run that are price comparison queries
PriceEvents == {k \in 1..Len(run.trace) : run.trace[k].kind = "price"}

\* the price table schemas of the tenant of the run lack a required column
PriceSchemaIncomplete ==
  \/ \E k \in 1..Len(requiredColumns.old) : ~HasColumn(OldPrice, requiredColumns.old[k])
  \/ \E k \in 1..Len(requiredColumns.new) : ~HasColumn(NewPrice, requiredColumns.new[k])

\* the run has left step 10, by either branch or by an error of it
PastPriceStep ==
  \E k \in 1..Len(run.steps) : run.steps[k] \in {"compare_prices", "skip_prices"}

\* C14: when a price table of the tenant lacks one of sku_code,
\* price_book_id, mrp, rsp, spp, the run sends no price comparison query,
\* records the missing columns once step 9 has completed, leaves the price
\* sub-result unset and has no error in step 10; when none is lacking and
\* step 10 has been left, the price comparison query was sent
C14_PriceGate ==
  InRun =>
    /\ PriceSchemaIncomplete =>
         /\ PriceEvents = {}
         /\ ~run.results.priceMismatches.set
         /\ run.failedStep # 10
         /\ run.results.missingPriceColumns.set =>
              ~PriceGateOpen(run.results.missingPriceColumns.value)
    /\ (~PriceSchemaIncomplete /\ PastPriceStep) => PriceEvents # {}

\* the steps of a tenant run before its price branch, in the stated order
StatedOrder ==
  <<"resolve_attributes", "resolve_categories", "resolve_common", "check_sku",
    "compare_attributes", "compare_categories", "compare_common",
    "check_price_prerequisites">>

\* the steps entered, a step that threw included, follow the stated order:
\* the eight steps, then one of the two price branches, then disconnect,
\* and nothing but disconnect follows a step that threw
InStatedOrder(steps, failedStep) ==
  LET body == SelectSeq(steps, LAMBDA st : st # "disconnect")
      closes == {k \in 1..Len(steps) : steps[k] = "disconnect"}
  IN /\ Len(body) <= Len(StatedOrder) + 1
     /\ \A k \in 1..Len(body) :
          IF k <= Len(StatedOrder) THEN body[k] = StatedOrder[k]
          ELSE body[k] \in {"compare_prices", "skip_prices"}
     /\ closes \subseteq {Len(steps)}
     /\ failedStep # 0 => body # <<>> /\ body[Len(body)] = StepName[failedStep]
     /\ Len(body) >= 5 => failedStep \notin {2, 3, 4, 5}

\* C15: the steps of a tenant run are entered in the stated order, each at
\* most once, with exactly one price branch before the disconnect, and a
\* comparison step is entered only after the three resolutions and the
\* SKU check completed without an error; the queries of the connection
\* follow the same order
C15_StepsInStatedOrder ==
  /\ InRun =>
       /\ InStatedOrder(run.steps, run.failedStep)
       /\ \A i, j \in 1..Len(run.trace) : i < j => run.trace[i].step <= run.trace[j].step
       /\ run.pc = "return" /\ run.failedStep = 0 => Len(run.steps) = Len(StatedOrder) + 2
  /\ \A k \in 1..Len(finished) :
       InStatedOrder(finished[k].steps, finished[k].failedStep)

C15_Witness ==
  /\ InRun /\ run.failedStep = 0
  /\ Len(run.steps) = Len(StatedOrder) + 2
  /\ run.steps[Len(StatedOrder) + 1] = "skip_prices"
  /\ run.steps[Len(run.steps)] = "disconnect"

\* the connections of the batch that are open: that of the current run and
\* those of the calls that returned without ending theirs
OpenConnections ==
  {k \in 1..Len(finished) : finished[k].connected /\ finished[k].ends = 0}
    \cup (IF InRun /\ run.connection = "open" THEN {Len(finished) + 1} ELSE {})

\* C16: at most one tenant connection is open at any time; the calls are
\* made in the order of the tenant list; a call that had a connection has
\* ended it when it returns, so before its report and before the next
\* tenant is connected; and when a tenant run starts, the report of every
\* earlier tenant has been generated
C16_OneTenantAtATime ==
  /\ Cardinality(OpenConnections) <= 1
  /\ \A k \in 1..Len(finished) :
       /\ finished[k].db = env.tenantDbs[k]
       /\ finished[k].connected => finished[k].ends = 1
       /\ finished[k].reported => finished[k].connected /\ finished[k].ends = 1
  /\ InRun =>
       /\ Len(finished) < Len(env.tenantDbs)
       /\ run.db = env.tenantDbs[Len(finished) + 1]
       /\ \A k \in 1..Len(finished) : finished[k].reported /\ finished[k].ends = 1

C16_Witness ==
  /\ InRun /\ run.connection = "open"
  /\ Len(finished) = 1 /\ finished[1].reported /\ finished[1].ends = 1
  /\ run.db # finished[1].db

\* the mappings recorded in a list of missingColumns
RecordedIn(list) == {list[k].mapping : k \in 1..Len(list)}

\* C17: when verifyAttributeColumns returns, every mapping of the loaded
\* Map whose old column is not ignored is recorded in missingColumns.oldTable
\* exactly when its old column is not a column of the old table, and in
\* missingColumns.newTable exactly when its new column is not a column of
\* the new table (names compared without regard to case), with the absent
\* column named in the record; it is in validMappings exactly when it is
\* in neither list
C17_MissingListsExact ==
  AttributeResolved =>
    LET out == resolveOut.attribute.out
        map == resolveOut.mappings.map
    IN \A i \in 1..Len(map) :
         ~Includes(IGNORED_COLUMNS.oldTable, map[i][2]) =>
           /\ map[i] \in RecordedIn(out.missingColumns.oldTable)
                <=> toLowerCase(map[i][2]) \notin OldSnapshot
           /\ map[i] \in RecordedIn(out.missingColumns.newTable)
                <=> toLowerCase(map[i][1]) \notin NewSnapshot
           /\ \A k \in 1..Len(out.missingColumns.oldTable) :
                out.missingColumns.oldTable[k].mapping = map[i]
                  => out.missingColumns.oldTable[k].missingColumn = map[i][2]
           /\ \A k \in 1..Len(out.missingColumns.newTable) :
                out.missingColumns.newTable[k].mapping = map[i]
                  => out.missingColumns.newTable[k].missingColumn = map[i][1]
           /\ Includes(out.validMappings, map[i])
                <=> /\ map[i] \notin RecordedIn(out.missingColumns.oldTable)
                    /\ map[i] \notin RecordedIn(out.missingColumns.newTable)

\* a run that recorded one mapping in both lists and kept another, spelled
\* in another case than the schema
C17_Witness ==
  /\ AttributeResolved
  /\ <<"size", "attr_2">> \in RecordedIn(resolveOut.attribute.out.missingColumns.oldTable)
                           \cap RecordedIn(resolveOut.attribute.out.missingColumns.newTable)
  /\ resolveOut.attribute.out.validMappings = << <<"color", "attr_1">> >>
  /\ "ATTR_1" \in resolveIn.oldColumnNames

\* the records of main's log written with logger.error
ErrorRecords(log) == {k \in 1..Len(log) : log[k].level = "error"}

\* C18: when the credentials are missing or the tenant list is empty, main
\* loads no mapping file, makes no verifyDatabase call (so opens no
\* connection), generates no report and no index page, and ends with
\* process.exit(1) after logging the configuration error
C18_ConfigurationErrorStopsBatch ==
  (~env.credentials \/ Len(env.tenantDbs) = 0) =>
    /\ mainPc \in {"start", "exited"}
    /\ loaded = NotRun
    /\ tenant = 0 /\ run = NoRun /\ finished = <<>>
    /\ mainPc = "exited" => Cardinality(ErrorRecords(mainLog)) = 1

C18_Witness ==
  /\ env.credentials /\ Len(env.tenantDbs) = 0
  /\ mainPc = "exited"
  /\ mainLog = <<LogRecord("error", "No tenant databases specified")>>

\* how many times a catch block was entered
CatchCount(catches, site) == Cardinality({k \in 1..Len(catches) : catches[k] = site})

\* how many records of a level and event a log holds
LogCount(log, level, event) ==
  Cardinality({k \in 1..Len(log) : log[k].level = level /\ log[k].event = event})

\* the catch blocks a tenant run can enter that log with logger.error
ErrorSites == DOMAIN CatchMessage

\* C19: in a tenant run, every entry into a catch block is matched by a
\* log record of that block: a warning naming the failed query for the
\* catch block inside a comparator loop, an error record with the message
\* of the block for a resolver, getTableColumns, the SKU check, the price
\* subsystem and verifyDatabase
C19_CaughtErrorsLogged ==
  InRun =>
    /\ \A site \in ErrorSites :
         CatchCount(run.catches, site) <= LogCount(run.log, "error", CatchMessage[site])
    /\ CatchCount(run.catches, "comparator") <= LogCount(run.log, "warning", "query_failed")
    /\ \A k \in 1..Len(run.catches) : run.catches[k] \in ErrorSites \cup {"comparator"}

\* a run in which a comparator caught a failed query and went on, the price
\* comparison threw, and the catch block of verifyDatabase was entered
C19_Witness ==
  /\ InRun
  /\ Includes(run.catches, "comparator")
  /\ Includes(run.catches, "comparePrices")
  /\ Includes(run.catches, "verifyDatabase")
  /\ Len(run.log) >= 3

\* a line of a mapping file that is not blank and has no '->' or has an
\* empty side
Malformed(line) ==
  ~LineIsBlank(line) /\ (Len(line) < 2 \/ line[1] = "" \/ line[2] = "")

\* the mappings the loader makes of the malformed lines of the file
MalformedMappings ==
  {<<LineNewCol(resolveIn.lines[k]), LineOldCol(resolveIn.lines[k])>> :
     k \in {j \in 1..Len(resolveIn.lines) : Malformed(resolveIn.lines[j])}}

\* what verifyAttributeColumns returns for the file without its malformed lines
WithoutMalformed ==
  verifyAttributeColumns(OldSnapshot, NewSnapshot,
    loadAttributeMappings(SelectSeq(resolveIn.lines, LAMBDA line : ~Malformed(line))))

\* C20: when the mapping file holds a malformed line, verifyAttributeColumns
\* returns without throwing, no mapping made of a malformed line is in
\* validMappings, and validMappings and the missing-column records of the
\* other mappings are those of the file without the malformed lines
C20_MalformedLineDropped ==
  (resolveOut.attribute.run /\ MalformedMappings # {}) =>
    LET out == resolveOut.attribute.out IN
    /\ ~out.threw
    /\ \A m \in MalformedMappings : ~Includes(out.validMappings, m)
    /\ ~WithoutMalformed.threw
    /\ out.validMappings = WithoutMalformed.validMappings
    /\ SelectSeq(out.missingColumns.oldTable, LAMBDA e : e.mapping \notin MalformedMappings)
         = WithoutMalformed.missingColumns.oldTable
    /\ SelectSeq(out.missingColumns.newTable, LAMBDA e : e.mapping \notin MalformedMappings)
         = WithoutMalformed.missingColumns.newTable

(***************************************************************************)
(* Claims about the grouping of mismatches (checked under SpecGroup).      *)
(***************************************************************************)
RECURSIVE ProducedRows(_)
\* the difference rows in the order they were produced, each with the
\* row the grouping makes of it
ProducedRows(mismatches) ==
  IF mismatches = <<>> THEN <<>>
  ELSE [k \in 1..Len(Head(mismatches).differences) |->
          [sku_code |-> Head(mismatches).differences[k].sku_code,
           row |-> GroupedRow(Head(mismatches), Head(mismatches).differences[k])]]
       \o ProducedRows(Tail(mismatches))

\* the rows produced for one sku_code, in production order
RowsOfSku(produced, sku) ==
  LET own == SelectSeq(produced, LAMBDA e : e.sku_code = sku)
  IN [k \in 1..Len(own) |-> own[k].row]

\* C21: the groups are keyed by sku_code: every sku_code of a difference
\* row has exactly one group, every group holds exactly the rows of its
\* own sku_code and no other, in the order attribute, category, common
\* and, within each, in comparator order
C21_GroupingStable ==
  groupOut.run =>
    LET produced == ProducedRows(AllMismatches(groupIn))
        skuMap == groupOut.skuMap
    IN /\ \A i, j \in 1..Len(skuMap) : skuMap[i].key = skuMap[j].key => i = j
       /\ \A k \in 1..Len(produced) :
            \E i \in 1..Len(skuMap) : skuMap[i].key = produced[k].sku_code
       /\ \A i \in 1..Len(skuMap) :
            skuMap[i].rows = RowsOfSku(produced, skuMap[i].key)

(***************************************************************************)
(* Claims about the SKU-existence check (checked under SpecSku).           *)
(***************************************************************************)
\* the distinct non-NULL sku_code values of a flat table
DistinctSkus(table) ==
  {table.rows[k].sku_code : k \in 1..Len(table.rows)} \ {NULL}

\* a list of the check names exactly the SKU codes of `expected`, each once
ListsExactly(list, expected) ==
  /\ {list[k].sku_code : k \in 1..Len(list)} = expected
  /\ \A i, j \in 1..Len(list) : list[i].sku_code = list[j].sku_code => i = j

\* C22: missingInNew names exactly the distinct sku_code values of the old
\* flat table that the new flat table does not hold, missingInOld the
\* opposite difference, each sku_code once and never NULL
C22_SkuCheckIsSetDifference ==
  compareOut.run =>
    /\ ListsExactly(compareOut.out.missingInNew,
                    DistinctSkus(compareIn.old) \ DistinctSkus(compareIn.new))
    /\ ListsExactly(compareOut.out.missingInOld,
                    DistinctSkus(compareIn.new) \ DistinctSkus(compareIn.old))

(***************************************************************************)
(* Claims relating the comparators to the SKU-existence check (checked     *)
(* under SpecCompare, the check being made on the same two flat tables).   *)
(***************************************************************************)
\* the sku_code values of the difference rows a comparator returned
MismatchSkus(mismatches) ==
  UNION { {mismatches[k].differences[d].sku_code : d \in 1..Len(mismatches[k].differences)}
          : k \in 1..Len(mismatches) }

\* the sku_code values the SKU-existence check lists for the two tables
ListedMissing(oldTable, newTable) ==
  LET lists == verifySkuCodeMatches(oldTable, newTable)
  IN {lists.missingInNew[k].sku_code : k \in 1..Len(lists.missingInNew)}
       \cup {lists.missingInOld[k].sku_code : k \in 1..Len(lists.missingInOld)}

\* C23: every difference row a comparator returns has a sku_code that is
\* not NULL and that a row of each flat table holds, so no sku_code the
\* SKU-existence check lists as missing on a side is in a mismatch list
C23_MismatchOnlyForSharedSku ==
  compareOut.run =>
    \A sku \in MismatchSkus(compareOut.out.mismatches) :
      /\ sku # NULL
      /\ \E i \in 1..Len(compareIn.old.rows) : compareIn.old.rows[i].sku_code = sku
      /\ \E j \in 1..Len(compareIn.new.rows) : compareIn.new.rows[j].sku_code = sku
      /\ sku \notin ListedMissing(compareIn.old, compareIn.new)

\* a comparator whose query was answered for tables in which a SKU with a
\* value in the compared column is on the old side only
C23_Witness ==
  /\ compareOut.run
  /\ \E i \in AnsweredPositions : \E k \in 1..Len(compareIn.old.rows) :
       /\ compareIn.old.rows[k].sku_code = "S2"
       /\ FieldOf(compareIn.old.rows[k], ComparedItems[i][2]) # NULL
  /\ "S2" \in ListedMissing(compareIn.old, compareIn.new)
  /\ compareOut.out.mismatches = <<>>

(***************************************************************************)
(* Further claims about the batch (checked under Spec).                    *)
(***************************************************************************)
\* the step of verifyDatabase whose call computes each field of the result
ProducingStep ==
  [missingAttributeColumns |-> 2, missingCategoryColumns |-> 3,
   missingCommonColumns |-> 4, skuMismatches |-> 5, attributeMismatches |-> 6,
   categoryMismatches |-> 7, commonColumnMismatches |-> 8,
   missingPriceColumns |-> 9, priceMismatches |-> 10]

\* C24: when step k of a tenant run threw, the result returned to main and
\* handed to the report holds the output of every step before k and the
\* initial null for step k and every later step
C24_ResultPopulatedIncrementally ==
  \A t \in 1..Len(finished) :
    (finished[t].returned /\ finished[t].failedStep # 0) =>
      \A f \in DOMAIN ProducingStep :
        finished[t].results[f].set <=> ProducingStep[f] < finished[t].failedStep

\* the lower-cased column names of a table of the tenant's own database
OwnColumns(tableName) ==
  LowerCasedNames(env.server[run.db][tableName].columnNames)

\* C25: the column lists a tenant run works with are those of the tables
\* of its own database: the snapshot of the flat tables holds exactly their
\* lower-cased column names, every valid mapping and every available common
\* column has its columns in them, and the price columns reported missing
\* are exactly those the tenant's own price tables lack
C25_SnapshotOfOwnDatabase ==
  InRun =>
    /\ run.snapshot.set =>
         /\ run.snapshot.value.old = OwnColumns("vendor_sku_flat_table")
         /\ run.snapshot.value.new = OwnColumns("im_sku_flat_table")
    /\ run.validMappings.set =>
         \A i \in 1..Len(run.validMappings.value) :
           /\ toLowerCase(run.validMappings.value[i][2]) \in OwnColumns("vendor_sku_flat_table")
           /\ toLowerCase(run.validMappings.value[i][1]) \in OwnColumns("im_sku_flat_table")
    /\ run.availableColumns.set =>
         \A i \in 1..Len(run.availableColumns.value) :
           /\ run.availableColumns.value[i] \in OwnColumns("vendor_sku_flat_table")
           /\ run.availableColumns.value[i] \in OwnColumns("im_sku_flat_table")
    /\ run.results.missingPriceColumns.set =>
         run.results.missingPriceColumns.value
           = verifyPriceColumns(OwnColumns("vendor_item_price_mapping"),
                                OwnColumns("im_sku_price_mapping"))

\* the verifyDatabase call in progress in the next state
InRunNext == run'.pc # "none"

\* C26: no step of the batch after the load changes the loaded mapping
\* sets or the configuration, a verifyDatabase call starts from a fresh
\* result record and fresh locals for the next tenant of the list, and no
\* step changes the result of a call that has returned
C26_TenantRunsIndependent ==
  [][ /\ loaded.run => loaded' = loaded
      /\ env' = env
      /\ Len(finished') >= Len(finished)
      /\ \A k \in 1..Len(finished) : finished'[k].results = finished[k].results
      /\ (~InRun /\ InRunNext) =>
           /\ run'.db = env.tenantDbs[Len(finished) + 1]
           /\ run'.results = EmptyResults
           /\ run'.validMappings = Unset /\ run'.validCategoryMappings = Unset
           /\ run'.availableColumns = Unset /\ run'.snapshot = Unset
           /\ run'.trace = <<>> /\ run'.log = <<>>
      /\ (InRun /\ ~InRunNext) =>
           /\ Len(finished') = Len(finished) + 1
           /\ finished'[Len(finished')].results = run.results
           /\ finished'[Len(finished')].db = run.db ]_vars

\* the second tenant is being verified and has stored a result of its own
\* after a step of the first tenant threw
C26_Witness ==
  /\ InRun /\ Len(finished) = 1
  /\ finished[1].failedStep # 0 /\ finished[1].reported
  /\ run.results.skuMismatches.set
  /\ ~run.results.attributeMismatches.set

(***************************************************************************)
(* Further claims about the price strategies (checked under SpecPrice).    *)
(***************************************************************************)
\* no key is in two of the three lists of a price result, and every
\* mismatch record lists at least one difference, each between two
\* different values
WellPartitioned(res) ==
  /\ KeysOf(res.mismatches) \cap KeysOf(res.missing.missingInNew) = {}
  /\ KeysOf(res.mismatches) \cap KeysOf(res.missing.missingInOld) = {}
  /\ KeysOf(res.missing.missingInNew) \cap KeysOf(res.missing.missingInOld) = {}
  /\ \A m \in res.mismatches :
       /\ Len(m.differences) > 0
       /\ \A i \in 1..Len(m.differences) :
            m.differences[i].old_value # m.differences[i].new_value

\* C27: the result of comparePrices, of comparePricesOriginal and of
\* comparePricesOptimized each hold every (sku_code, price_book_id) key in
\* at most one of mismatches, missing.missingInNew and missing.missingInOld,
\* and only mismatch records with a non-empty list of real differences
C27_PriceResultPartitioned ==
  /\ priceResult.run => WellPartitioned(priceResult.result)
  /\ bench.run => WellPartitioned(bench.original) /\ WellPartitioned(bench.optimized)

\* a result of comparePrices holding a mismatch record with one difference
\* besides a record of a key missing on a side
C27_Witness ==
  /\ priceResult.run
  /\ \E m \in priceResult.result.mismatches : Len(m.differences) = 1
  /\ priceResult.result.missing.missingInOld # {}

(***************************************************************************)
(* Claim about the common columns (checked under SpecIdentical, whose flat *)
(* tables hold every desired common column).                               *)
(***************************************************************************)
\* no entry of the sequence occurs twice
NoRepeats(seq) == \A i, j \in 1..Len(seq) : seq[i] = seq[j] => i = j

\* the comparison queries compareCommonColumns sent, in order
CommonQueries ==
  SelectSeq(run.trace, LAMBDA e : e.step = 8 /\ e.kind = "compare")

\* C28: availableColumns holds each common column at most once,
\* compareCommonColumns sends at most one comparison query per column, and
\* its result holds at most one record per column
C28_CommonColumnsOnce ==
  InRun =>
    /\ run.availableColumns.set => NoRepeats(run.availableColumns.value)
    /\ NoRepeats([k \in 1..Len(CommonQueries) |-> CommonQueries[k].oldColumns])
    /\ run.results.commonColumnMismatches.set =>
         NoRepeats([k \in 1..Len(run.results.commonColumnMismatches.value) |->
                      run.results.commonColumnMismatches.value[k].column])
====
